---- MODULE Spec2Model ----
(***************************************************************************)
(* Model of the rate-limit canister's add_config operation                 *)
(* (rs/boundary_node/rate_limits/canister/add_config.rs): a versioned,     *)
(* append-only configuration store with content-addressed rule identity.   *)
(***************************************************************************)
EXTENDS Integers, Sequences, FiniteSets, TLC

VARIABLES
    configs,       \* Version -> StorableConfig   (storage owned by CanisterApi)
    rules,         \* RuleId -> StorableRule
    incidents,     \* IncidentId -> StorableIncident
    succeeded,     \* number of add_config calls that returned Ok(())
    call,          \* the add_config call that has run and is being answered:
                   \* its arguments, its draws, the store it found and its
                   \* result; None when no call is being answered
    crypto_root,   \* the key stores of a node's crypto directory: its public
                   \* keys (None when there is no readable public key store)
                   \* and the keys of its secret key store
    keys_calls     \* the calls of get_node_keys_or_generate_if_missing made
                   \* so far: the crypto_root each found, left, and its result

vars == <<configs, rules, incidents, succeeded, call, crypto_root, keys_calls>>

(***************************************************************************)
(* Bounds of the model.                                                    *)
(***************************************************************************)
\* longest submitted rule list
MaxRules == 2
\* number of distinct values a generated key can take
MaxKeyMaterial == 2
\* number of calls of get_node_keys_or_generate_if_missing on one crypto_root
MaxKeyCalls == 2
\* number of distinct values the 128-bit random draw can take
MaxRuleIds == 3
\* add_config is not called any more once the store holds this version
MaxVersion == 4
\* longest rule list submitted to the single call of SpecOneCall
MaxOneCallRules == 4
\* width of a Version in bits (64 in the program)
VersionBits == 3

(***************************************************************************)
(* Program constants.                                                      *)
(***************************************************************************)
INIT_JSON_SCHEMA_VERSION == 1
INIT_VERSION == 1

(***************************************************************************)
(* Option<T>: None is the empty sequence, Some(x) the one-element one.     *)
(***************************************************************************)
None == <<>>
Some(x) == <<x>>
IsSome(o) == o # <<>>
Unwrap(o) == o[1]

RuleIds == 1..MaxRuleIds
\* outcome of one call of generate_random_uuid: Err (None) or any identifier
DrawOutcomes == {None} \cup {Some(id) : id \in RuleIds}

(***************************************************************************)
(* Input domains.                                                          *)
(***************************************************************************)
\* rule_raw byte strings are the sequence of their members: <<"a", "b">> and
\* <<"b", "a">> are two encodings of the object {a, b}, <<>> is the object {}
JsonKeys == {"a", "b"}
\* a rule, the same rule re-encoded, a second rule of its incident, and a
\* rule of another incident
ValidInputRules ==
    {[incident_id |-> "aa", rule_raw |-> <<"a", "b">>, description |-> "d1"],
     [incident_id |-> "aa", rule_raw |-> <<"b", "a">>, description |-> "d1"],
     [incident_id |-> "aa", rule_raw |-> <<>>, description |-> "d2"],
     [incident_id |-> "bb", rule_raw |-> <<"a", "b">>, description |-> "d1"]}
\* an incident id that is no UUID, and a rule_raw that is no JSON
MalformedInputRules ==
    {[incident_id |-> "not_a_valid_uuid", rule_raw |-> <<>>, description |-> "d1"],
     [incident_id |-> "aa", rule_raw |-> <<"not_a_valid_json">>, description |-> "d1"]}
InputRules == ValidInputRules \cup MalformedInputRules
\* the rules of the single call of SpecOneCall: the incident id also in its
\* upper-case spelling, rules that differ in one component alone, and
\* entries malformed in one or in both components
OneCallInputRules ==
    {[incident_id |-> "aa", rule_raw |-> <<"a", "b">>, description |-> "d1"],
     [incident_id |-> "AA", rule_raw |-> <<"b", "a">>, description |-> "d1"],
     [incident_id |-> "aa", rule_raw |-> <<"a", "b">>, description |-> "d2"],
     [incident_id |-> "aa", rule_raw |-> <<"a">>, description |-> "d1"],
     [incident_id |-> "bb", rule_raw |-> <<"a", "b">>, description |-> "d1"],
     [incident_id |-> "not_a_valid_uuid", rule_raw |-> <<"a", "b">>, description |-> "d1"],
     [incident_id |-> "aa", rule_raw |-> <<"not_a_valid_json">>, description |-> "d1"],
     [incident_id |-> "not_a_valid_uuid", rule_raw |-> <<"not_a_valid_json">>,
      description |-> "d1"]}
SchemaVersions == {2}
Times == {11}

(***************************************************************************)
(* Conversions of the api types (crate::types).                            *)
(***************************************************************************)
\* Uuid::parse_str: hexadecimal digits are accepted in both cases
UuidParse(text) ==
    CASE text = "aa" -> Some("aa")
      [] text = "AA" -> Some("aa")
      [] text = "bb" -> Some("bb")
      [] text = "cc" -> Some("cc")
      [] OTHER -> None

\* serde_json::from_slice::<Value>: the parsed value of an object does not
\* depend on the order of its members
JsonParse(raw) ==
    IF \E i \in DOMAIN raw : raw[i] \notin JsonKeys
    THEN None
    ELSE Some({raw[i] : i \in DOMAIN raw})

\* PartialEq of types::InputRule: incident, parsed rule_raw and description
InputRuleEq(r1, r2) ==
    /\ r1.incident_id = r2.incident_id
    /\ JsonParse(r1.rule_raw) = JsonParse(r2.rule_raw)
    /\ r1.description = r2.description

\* Iterator::position: index (from 1) of the first rule equal to input_rule
Position(rule_seq, input_rule) ==
    LET hits == {j \in DOMAIN rule_seq : InputRuleEq(rule_seq[j], input_rule)}
    IN  IF hits = {} THEN None
        ELSE Some(CHOOSE j \in hits : \A k \in hits : j <= k)

\* AddConfigError and InputConfigError values
Ok == [tag |-> "Ok"]
Internal(detail) == [tag |-> "Internal", detail |-> detail]
InvalidIncidentUuidFormat(idx) ==
    [tag |-> "InvalidInputConfig", kind |-> "InvalidIncidentUuidFormat",
     index |-> idx, index2 |-> idx]
InvalidRuleJsonEncoding(idx) ==
    [tag |-> "InvalidInputConfig", kind |-> "InvalidRuleJsonEncoding",
     index |-> idx, index2 |-> idx]
DuplicateRules(idx1, idx2) ==
    [tag |-> "InvalidInputConfig", kind |-> "DuplicateRules",
     index |-> idx1, index2 |-> idx2]
LinkingRuleToDisclosedIncident(idx, incident_id) ==
    [tag |-> "LinkingRuleToDisclosedIncident", index |-> idx,
     incident_id |-> incident_id]

\* (mutant) two entries are duplicates only when their rule_raw bytes are the
\* same
RECURSIVE TryFromLoop_ByteEq(_, _, _)
TryFromLoop_ByteEq(api_rules, i, acc) ==
    IF i > Len(api_rules) THEN [ok |-> TRUE, rules |-> acc]
    ELSE
      LET r == api_rules[i]
          incident_id == UuidParse(r.incident_id)
      IN
      IF incident_id = None
      THEN [ok |-> FALSE, err |-> InvalidIncidentUuidFormat(i - 1)]
      ELSE IF JsonParse(r.rule_raw) = None
      THEN [ok |-> FALSE, err |-> InvalidRuleJsonEncoding(i - 1)]
      ELSE
        LET rule == [incident_id |-> Unwrap(incident_id),
                     rule_raw |-> r.rule_raw,
                     description |-> r.description]
            hits == {j \in DOMAIN acc : acc[j] = rule}
        IN
        IF hits # {}
        THEN [ok |-> FALSE,
              err |-> DuplicateRules((CHOOSE j \in hits : \A k \in hits : j <= k) - 1,
                                     i - 1)]
        ELSE TryFromLoop_ByteEq(api_rules, i + 1, Append(acc, rule))
\* types::InputConfig::try_from(api::InputConfig): entries are checked in
\* order, each for its incident id, its JSON and a content-equal earlier entry.
\* Indices reported are 0-based; sequences here are 1-based.
RECURSIVE TryFromLoop(_, _, _)
TryFromLoop(api_rules, i, acc) ==
    IF i > Len(api_rules) THEN [ok |-> TRUE, rules |-> acc]
    ELSE
      LET r == api_rules[i]
          incident_id == UuidParse(r.incident_id)
      IN
      IF incident_id = None
      THEN [ok |-> FALSE, err |-> InvalidIncidentUuidFormat(i - 1)]
      ELSE IF JsonParse(r.rule_raw) = None
      THEN [ok |-> FALSE, err |-> InvalidRuleJsonEncoding(i - 1)]
      ELSE
        LET rule == [incident_id |-> Unwrap(incident_id),
                     rule_raw |-> r.rule_raw,
                     description |-> r.description]
            earlier == Position(acc, rule)
        IN
        IF IsSome(earlier)
        THEN [ok |-> FALSE, err |-> DuplicateRules(Unwrap(earlier) - 1, i - 1)]
        ELSE TryFromLoop(api_rules, i + 1, Append(acc, rule))

InputConfigTryFrom(api_config) ==
    LET r == TryFromLoop(api_config.rules, 1, <<>>)
    IN  IF r.ok
        THEN [ok |-> TRUE,
              config |-> [schema_version |-> api_config.schema_version,
                          rules |-> r.rules]]
        ELSE r

(***************************************************************************)
(* Storage API (CanisterApi) on a store st = [configs, rules, incidents].  *)
(***************************************************************************)
Max(S) == CHOOSE x \in S : \A y \in S : y <= x

get_version(st) ==
    IF DOMAIN st.configs = {} THEN None ELSE Some(Max(DOMAIN st.configs))

get_config(st, version) ==
    IF version \in DOMAIN st.configs THEN Some(st.configs[version]) ELSE None

get_rule(st, rule_id) ==
    IF rule_id \in DOMAIN st.rules THEN Some(st.rules[rule_id]) ELSE None

get_incident(st, incident_id) ==
    IF incident_id \in DOMAIN st.incidents
    THEN Some(st.incidents[incident_id]) ELSE None

\* a config with its rule ids resolved to rule bodies; None when the config
\* or one of its rules is missing
get_full_config(st, version) ==
    IF version \notin DOMAIN st.configs THEN None
    ELSE
      LET config == st.configs[version] IN
      IF \E j \in DOMAIN config.rule_ids : config.rule_ids[j] \notin DOMAIN st.rules
      THEN None
      ELSE Some([schema_version |-> config.schema_version,
                 rules |-> [j \in DOMAIN config.rule_ids |->
                              LET rule == st.rules[config.rule_ids[j]]
                              IN  [incident_id |-> rule.incident_id,
                                   rule_raw |-> rule.rule_raw,
                                   description |-> rule.description]]])

upsert_rule(st, rule_id, rule) ==
    [st EXCEPT !.rules = (rule_id :> rule) @@ st.rules]

upsert_incident(st, incident_id, incident) ==
    [st EXCEPT !.incidents = (incident_id :> incident) @@ st.incidents]

api_add_config(st, version, config) ==
    [st EXCEPT !.configs = (version :> config) @@ st.configs]

(***************************************************************************)
(* ConfigAdder::add_config, add_config.rs lines 63-185.                    *)
(***************************************************************************)
Panic(detail) == [tag |-> "Panic", detail |-> detail]

\* u64::checked_add(1); a Version is a u64, modelled on VersionBits bits
U64_MAX == 2^VersionBits - 1
\* (mutant) the version is incremented by two
checked_add_ByTwo(version) == IF version >= U64_MAX THEN None ELSE Some(version + 2)
\* (mutant) the increment wraps around at the width of a Version
checked_add_Wrapping(version) == Some((version + 1) % (2^VersionBits))
\* (mutant) the version is not incremented
checked_add_Same(version) == Some(version)
checked_add(version) == IF version >= U64_MAX THEN None ELSE Some(version + 1)

\* (mutant) a submitted rule matches a current rule only when its rule_raw
\* bytes are the same
existing_rule_idx_ByteEq(current_full_config, input_rule) ==
    LET hits == {j \in DOMAIN current_full_config.rules :
                    /\ current_full_config.rules[j].incident_id = input_rule.incident_id
                    /\ current_full_config.rules[j].rule_raw = input_rule.rule_raw
                    /\ current_full_config.rules[j].description = input_rule.description}
    IN  IF hits = {} THEN None
        ELSE Some(CHOOSE j \in hits : \A k \in hits : j <= k)
\* lines 108-111: is the rule resubmitted, and at which position of the
\* current full config
existing_rule_idx(current_full_config, input_rule) ==
    Position(current_full_config.rules, input_rule)

\* lines 116-122: draw an identifier for a new rule and reject a stored one
\* (mutant) a drawn identifier that is stored is replaced by another draw,
\* taken here as the least identifier above the stored ones
DrawRuleId_Retry(st, draw) ==
    IF draw = None
    THEN [ok |-> FALSE, err |-> Internal("Failed to generate random bytes")]
    ELSE IF IsSome(get_rule(st, Unwrap(draw)))
    THEN [ok |-> TRUE, rule_id |-> Max(DOMAIN st.rules) + 1]
    ELSE [ok |-> TRUE, rule_id |-> Unwrap(draw)]

\* (mutant) the drawn identifier is not looked up among the stored rules
DrawRuleId_NoStoredCheck(st, draw) ==
    IF draw = None
    THEN [ok |-> FALSE, err |-> Internal("Failed to generate random bytes")]
    ELSE [ok |-> TRUE, rule_id |-> Unwrap(draw)]

DrawRuleId(st, draw) ==
    IF draw = None
    THEN [ok |-> FALSE, err |-> Internal("Failed to generate random bytes")]
    ELSE IF IsSome(get_rule(st, Unwrap(draw)))
    THEN [ok |-> FALSE, err |-> Internal("Failed to generate a new uuid")]
    ELSE [ok |-> TRUE, rule_id |-> Unwrap(draw)]

\* (mutant) the disclosure of the incident is not looked at
PolicyCheck_Skipped(st, input_rule, rule_idx) == [ok |-> TRUE]
\* lines 124-135: a new rule can't be linked to a disclosed incident
PolicyCheck(st, input_rule, rule_idx) ==
    LET existing_incident == get_incident(st, input_rule.incident_id)
    IN  IF IsSome(existing_incident) /\ Unwrap(existing_incident).is_disclosed
        THEN [ok |-> FALSE,
              err |-> LinkingRuleToDisclosedIncident(rule_idx, input_rule.incident_id)]
        ELSE [ok |-> TRUE]

\* (mutant) a new rule is recorded as added two versions after the next one
NewStorableRule_AddedLater(input_rule, next_version) ==
    [incident_id |-> input_rule.incident_id,
     rule_raw |-> input_rule.rule_raw,
     description |-> input_rule.description,
     disclosed_at |-> None,
     added_in_version |-> next_version + 2,
     removed_in_version |-> None]
\* lines 137-144
NewStorableRule(input_rule, next_version) ==
    [incident_id |-> input_rule.incident_id,
     rule_raw |-> input_rule.rule_raw,
     description |-> input_rule.description,
     disclosed_at |-> None,
     added_in_version |-> next_version,
     removed_in_version |-> None]

\* lines 151-154: incidents_map.entry(incident_id).or_default().insert(rule_id)
IncidentsMapInsert(incidents_map, incident_id, rule_id) ==
    LET old == IF incident_id \in DOMAIN incidents_map
               THEN incidents_map[incident_id] ELSE {}
    IN  (incident_id :> (old \cup {rule_id})) @@ incidents_map

\* (mutant) the disclosure policy is applied to every submitted rule,
\* reused or new
ReuseOrMint_PolicyOnAll(st, current_config, current_full_config, next_version, input_rule, i, draw) ==
    LET existing == existing_rule_idx(current_full_config, input_rule)
        policy == PolicyCheck(st, input_rule, i - 1)
    IN
    IF ~policy.ok THEN policy
    ELSE IF IsSome(existing)
    THEN [ok |-> TRUE, rule_id |-> current_config.rule_ids[Unwrap(existing)],
          added |-> <<>>]
    ELSE
      LET drawn == DrawRuleId(st, draw) IN
      IF ~drawn.ok THEN drawn
      ELSE [ok |-> TRUE, rule_id |-> drawn.rule_id,
            added |-> <<<<drawn.rule_id, NewStorableRule(input_rule, next_version)>>>>]
\* (mutant) the record of a reused rule is written again, as added in the
\* next version
ReuseOrMint_ReAdds(st, current_config, current_full_config, next_version, input_rule, i, draw) ==
    LET existing == existing_rule_idx(current_full_config, input_rule) IN
    IF IsSome(existing)
    THEN LET rule_id == current_config.rule_ids[Unwrap(existing)] IN
         [ok |-> TRUE, rule_id |-> rule_id,
          added |-> <<<<rule_id, [Unwrap(get_rule(st, rule_id)) EXCEPT
                                    !.added_in_version = next_version]>>>>]
    ELSE
      LET drawn == DrawRuleId(st, draw) IN
      IF ~drawn.ok THEN drawn
      ELSE
        LET policy == PolicyCheck(st, input_rule, i - 1) IN
        IF ~policy.ok THEN policy
        ELSE [ok |-> TRUE, rule_id |-> drawn.rule_id,
              added |-> <<<<drawn.rule_id, NewStorableRule(input_rule, next_version)>>>>]
\* (mutant) the record of a reused rule is rewritten with the rule_raw bytes
\* of the submission
ReuseOrMint_RewriteReused(st, current_config, current_full_config, next_version, input_rule, i, draw) ==
    LET existing == existing_rule_idx(current_full_config, input_rule) IN
    IF IsSome(existing)
    THEN LET rule_id == current_config.rule_ids[Unwrap(existing)] IN
         [ok |-> TRUE, rule_id |-> rule_id,
          added |-> <<<<rule_id, [Unwrap(get_rule(st, rule_id)) EXCEPT
                                    !.rule_raw = input_rule.rule_raw]>>>>]
    ELSE
      LET drawn == DrawRuleId(st, draw) IN
      IF ~drawn.ok THEN drawn
      ELSE
        LET policy == PolicyCheck(st, input_rule, i - 1) IN
        IF ~policy.ok THEN policy
        ELSE [ok |-> TRUE, rule_id |-> drawn.rule_id,
              added |-> <<<<drawn.rule_id, NewStorableRule(input_rule, next_version)>>>>]
\* (mutant) a reused rule takes the identifier at its position in the
\* submission, the outer rule_idx, instead of the position of its match
ReuseOrMint_OuterIdx(st, current_config, current_full_config, next_version, input_rule, i, draw) ==
    LET existing == existing_rule_idx(current_full_config, input_rule) IN
    IF IsSome(existing)
    THEN IF i \in DOMAIN current_config.rule_ids
         THEN [ok |-> TRUE, rule_id |-> current_config.rule_ids[i], added |-> <<>>]
         ELSE [ok |-> FALSE, err |-> Panic("index out of bounds")]
    ELSE
      LET drawn == DrawRuleId(st, draw) IN
      IF ~drawn.ok THEN drawn
      ELSE
        LET policy == PolicyCheck(st, input_rule, i - 1) IN
        IF ~policy.ok THEN policy
        ELSE [ok |-> TRUE, rule_id |-> drawn.rule_id,
              added |-> <<<<drawn.rule_id, NewStorableRule(input_rule, next_version)>>>>]
\* lines 108-149: the identifier of one submitted rule, reused from the
\* current config or minted; i is the 1-based position, the code's outer
\* rule_idx is i - 1
ReuseOrMint(st, current_config, current_full_config, next_version, input_rule, i, draw) ==
    LET existing == existing_rule_idx(current_full_config, input_rule) IN
    IF IsSome(existing)
    THEN IF Unwrap(existing) \in DOMAIN current_config.rule_ids
         THEN [ok |-> TRUE, rule_id |-> current_config.rule_ids[Unwrap(existing)],
               added |-> <<>>]
         ELSE [ok |-> FALSE, err |-> Panic("index out of bounds")]
    ELSE
      LET drawn == DrawRuleId(st, draw) IN
      IF ~drawn.ok THEN drawn
      ELSE
        LET policy == PolicyCheck(st, input_rule, i - 1) IN
        IF ~policy.ok THEN policy
        ELSE [ok |-> TRUE, rule_id |-> drawn.rule_id,
              added |-> <<<<drawn.rule_id, NewStorableRule(input_rule, next_version)>>>>]

\* lines 106-157: one iteration of the loop over the submitted rules
DiffStep(st, current_config, current_full_config, next_version, input_rule, i, draw, acc) ==
    LET r == ReuseOrMint(st, current_config, current_full_config, next_version,
                         input_rule, i, draw)
    IN
    IF ~r.ok THEN r
    ELSE [ok |-> TRUE,
          rule_ids |-> Append(acc.rule_ids, r.rule_id),
          new_rules |-> acc.new_rules \o r.added,
          incidents_map |->
              IncidentsMapInsert(acc.incidents_map, input_rule.incident_id, r.rule_id)]

RECURSIVE DiffLoop(_, _, _, _, _, _, _, _)
DiffLoop(st, current_config, current_full_config, next_version, next_rules, draws, i, acc) ==
    IF i > Len(next_rules) THEN acc
    ELSE
      LET step == DiffStep(st, current_config, current_full_config, next_version,
                           next_rules[i], i, draws[i], acc)
      IN  IF ~step.ok THEN step
          ELSE DiffLoop(st, current_config, current_full_config, next_version,
                        next_rules, draws, i + 1, step)

\* (mutant) the last rule of the current config is never scheduled for
\* removal
removed_rule_ids_ButLast(current_config, rule_ids) ==
    LET rule_ids_set == {rule_ids[j] : j \in DOMAIN rule_ids}
        keep(rule_id) == rule_id \notin rule_ids_set
    IN  IF current_config.rule_ids = <<>> THEN <<>>
        ELSE SelectSeq(SubSeq(current_config.rule_ids, 1, Len(current_config.rule_ids) - 1),
                       keep)
\* (mutant) no rule of the current config is scheduled for removal
removed_rule_ids_None(current_config, rule_ids) == <<>>
\* (mutant) every rule of the current config is scheduled for removal
removed_rule_ids_All(current_config, rule_ids) == current_config.rule_ids
\* lines 159-166
removed_rule_ids(current_config, rule_ids) ==
    LET rule_ids_set == {rule_ids[j] : j \in DOMAIN rule_ids}
        keep(rule_id) == rule_id \notin rule_ids_set
    IN  SelectSeq(current_config.rule_ids, keep)

(***************************************************************************)
(* commit_changes, add_config.rs lines 196-237.  The result is the new     *)
(* store, or ok = FALSE when an expect() panics.                           *)
(***************************************************************************)
\* lines 205-212
RECURSIVE MarkRemoved(_, _, _)
MarkRemoved(st, removed_rules, next_version) ==
    IF removed_rules = <<>> THEN [ok |-> TRUE, st |-> st]
    ELSE
      LET rule_id == Head(removed_rules)
          rule == get_rule(st, rule_id)
      IN
      IF rule = None THEN [ok |-> FALSE, st |-> st]
      ELSE MarkRemoved(
             upsert_rule(st, rule_id,
                         [Unwrap(rule) EXCEPT !.removed_in_version = Some(next_version)]),
             Tail(removed_rules), next_version)

\* (mutant) the new rules are not written
InsertNewRules_Skip(st, new_rules) == st
\* lines 215-217
RECURSIVE InsertNewRules(_, _)
InsertNewRules(st, new_rules) ==
    IF new_rules = <<>> THEN st
    ELSE InsertNewRules(upsert_rule(st, Head(new_rules)[1], Head(new_rules)[2]),
                        Tail(new_rules))

\* (mutant) the membership of a stored incident is replaced by the rules of
\* the submission
UpsertIncidents_Replace(st, incidents_map) ==
    LET merged(incident_id) ==
            LET stored == get_incident(st, incident_id)
            IN  IF IsSome(stored)
                THEN [Unwrap(stored) EXCEPT !.rule_ids = incidents_map[incident_id]]
                ELSE [is_disclosed |-> FALSE, rule_ids |-> incidents_map[incident_id]]
    IN  [st EXCEPT !.incidents =
            [incident_id \in DOMAIN incidents_map |-> merged(incident_id)] @@ st.incidents]

\* lines 220-233: every incident of the map is written once, so the iteration
\* order of the HashMap does not matter
UpsertIncidents(st, incidents_map) ==
    LET merged(incident_id) ==
            LET stored == get_incident(st, incident_id)
            IN  IF IsSome(stored)
                THEN [Unwrap(stored) EXCEPT
                        !.rule_ids = @ \cup incidents_map[incident_id]]
                ELSE [is_disclosed |-> FALSE, rule_ids |-> incidents_map[incident_id]]
    IN  [st EXCEPT !.incidents =
            [incident_id \in DOMAIN incidents_map |-> merged(incident_id)] @@ st.incidents]

\* (mutant) a part of the commit: the rules and the incidents are written, the
\* config is not
commit_changes_NoConfig(st, next_version, storable_config, removed_rules, new_rules, incidents_map) ==
    LET marked == MarkRemoved(st, removed_rules, next_version) IN
    IF ~marked.ok THEN marked
    ELSE [ok |-> TRUE,
          st |-> UpsertIncidents(InsertNewRules(marked.st, new_rules), incidents_map)]

commit_changes(st, next_version, storable_config, removed_rules, new_rules, incidents_map) ==
    LET marked == MarkRemoved(st, removed_rules, next_version) IN
    IF ~marked.ok THEN marked
    ELSE [ok |-> TRUE,
          st |-> api_add_config(
                   UpsertIncidents(InsertNewRules(marked.st, new_rules), incidents_map),
                   next_version, storable_config)]

\* lines 99-183: diff against the current config, then commit
DiffAndCommit(st, next_config, current_config, current_full_config, next_version, t, draws) ==
    LET diff == DiffLoop(st, current_config, current_full_config, next_version,
                         next_config.rules, draws, 1,
                         [ok |-> TRUE, rule_ids |-> <<>>, new_rules |-> <<>>,
                          incidents_map |-> <<>>])
    IN
    IF ~diff.ok THEN [result |-> diff.err, st |-> st]
    ELSE
      LET storable_config == [schema_version |-> next_config.schema_version,
                              active_since |-> t,
                              rule_ids |-> diff.rule_ids]
          committed == commit_changes(st, next_version, storable_config,
                                      removed_rule_ids(current_config, diff.rule_ids),
                                      diff.new_rules, diff.incidents_map)
      IN
      \* a panic traps the canister call, which discards the call's writes
      IF ~committed.ok
      THEN [result |-> Panic("inconsistent state, rule_id not found"), st |-> st]
      ELSE [result |-> Ok, st |-> committed.st]

\* (mutant) a store without version is taken as one about to get its first
\* version
LoadAndRun_DefaultVersion(st, next_config, t, draws) ==
    DiffAndCommit(st, next_config,
                  [schema_version |-> INIT_JSON_SCHEMA_VERSION, active_since |-> 0,
                   rule_ids |-> <<>>],
                  [schema_version |-> INIT_JSON_SCHEMA_VERSION, rules |-> <<>>],
                  IF get_version(st) = None THEN INIT_VERSION
                  ELSE Unwrap(get_version(st)) + 1,
                  t, draws)
\* lines 71-97: load the current version, its config and its full config
LoadAndRun(st, next_config, t, draws) ==
    LET current_version == get_version(st) IN
    IF current_version = None
    THEN [result |-> Internal("No existing config version found"), st |-> st]
    ELSE
      LET current_config == get_config(st, Unwrap(current_version))
          current_full_config == get_full_config(st, Unwrap(current_version))
          next_version == checked_add(Unwrap(current_version))
      IN
      IF current_config = None \/ current_full_config = None
      THEN [result |-> Internal("No config for version found"), st |-> st]
      ELSE IF next_version = None
      THEN [result |-> Internal("Overflow occurred while incrementing the current version"),
            st |-> st]
      ELSE DiffAndCommit(st, next_config, Unwrap(current_config),
                         Unwrap(current_full_config), Unwrap(next_version), t, draws)

\* (mutant) the entries before the first rejected one are accepted and
\* committed before the validation error is returned
ValidPrefix(api_config, err) ==
    [api_config EXCEPT !.rules = SubSeq(api_config.rules, 1, err.index2)]
add_config_PartialAccept(st, api_config, t, draws) ==
    LET next_config == InputConfigTryFrom(api_config) IN
    IF ~next_config.ok
    THEN [result |-> next_config.err,
          st |-> LoadAndRun(st,
                            InputConfigTryFrom(ValidPrefix(api_config, next_config.err)).config,
                            t, draws).st]
    ELSE LoadAndRun(st, next_config.config, t, draws)
\* (mutant) the current version is loaded before the submission is validated
add_config_LoadFirst(st, api_config, t, draws) ==
    IF get_version(st) = None
    THEN [result |-> Internal("No existing config version found"), st |-> st]
    ELSE
      LET next_config == InputConfigTryFrom(api_config) IN
      IF ~next_config.ok
      THEN [result |-> next_config.err, st |-> st]
      ELSE LoadAndRun(st, next_config.config, t, draws)
\* lines 63-185
add_config(st, api_config, t, draws) ==
    LET next_config == InputConfigTryFrom(api_config) IN
    IF ~next_config.ok
    THEN [result |-> next_config.err, st |-> st]
    ELSE LoadAndRun(st, next_config.config, t, draws)

(***************************************************************************)
(* The canister's state and its calls.                                     *)
(***************************************************************************)
(***************************************************************************)
(* Node keys, crypto/src/common/utils.rs.  A public key is its algorithm   *)
(* and key value; the NI-DKG dealing encryption key and the TLS            *)
(* certificate also carry the node ID they were generated for.  The secret *)
(* key store holds, for a key pair, the pair <<algorithm, key value>>.     *)
(***************************************************************************)
KeyMaterial == 1..MaxKeyMaterial
KeySteps == <<"committee_signing", "node_signing", "dkg_dealing_encryption",
              "idkg_dealing_encryption", "tls">>
\* the key values the generators of one call draw from OsRng, one per key
KeyDraws == [{KeySteps[i] : i \in DOMAIN KeySteps} -> KeyMaterial]
\* the step of a call that fails, if any: a generator or the writing of the
\* public key store
FailPoints == {"none", "store"} \cup {KeySteps[i] : i \in DOMAIN KeySteps}

\* basicsig_conversions::derive_node_id: the principal of the key's bytes
derive_node_id(node_signing_pk) == [principal_of |-> node_signing_pk.key_value]

NodeSigningPk(k) == [algorithm |-> "Ed25519", key_value |-> k]
CommitteeSigningPk(k) == [algorithm |-> "MultiBls12_381", key_value |-> k]
DkgDealingEncryptionPk(k, node_id) ==
    [algorithm |-> "Groth20_Bls12_381", key_value |-> k, node_id |-> node_id]
IDkgDealingEncryptionPk(k) == [algorithm |-> "MegaSecp256k1", key_value |-> k]
TlsCertificate(k, node_id) == [algorithm |-> "Tls", key_value |-> k, node_id |-> node_id]
SecretKeyOf(pk) == <<pk.algorithm, pk.key_value>>

CryptoOk(value) == [ok |-> TRUE, value |-> value]
CryptoErr(detail) == [ok |-> FALSE, err |-> detail]

\* lines 170-174: a public key store that cannot be read is an error
read_public_keys(root) ==
    IF root.public_keys = None
    THEN CryptoErr("Failed reading public keys")
    ELSE CryptoOk(Unwrap(root.public_keys))

\* lines 220-226
node_public_keys_are_empty(node_pks) ==
    /\ node_pks.node_signing_pk = None
    /\ node_pks.committee_signing_pk = None
    /\ node_pks.dkg_dealing_encryption_pk = None
    /\ node_pks.idkg_dealing_encryption_pk = None
    /\ node_pks.tls_certificate = None

\* keygen::ensure_*_key_material_is_set_up_correctly: the secret key store
\* holds the secret key of the public key
key_material_is_set_up_correctly(pk, root) ==
    IF SecretKeyOf(pk) \in root.secret_keys
    THEN CryptoOk(TRUE)
    ELSE CryptoErr("secret key not found")

\* lines 228-238
ensure_node_signing_key_is_set_up_locally(maybe_pk, root) ==
    IF maybe_pk = None
    THEN CryptoErr("missing node signing key in local public key store")
    ELSE key_material_is_set_up_correctly(Unwrap(maybe_pk), root)
\* lines 240-250
ensure_committee_signing_key_is_set_up_locally(maybe_pk, root) ==
    IF maybe_pk = None
    THEN CryptoErr("missing committee signing key in local public key store")
    ELSE key_material_is_set_up_correctly(Unwrap(maybe_pk), root)
\* lines 252-263
ensure_dkg_dealing_encryption_key_is_set_up_locally(maybe_pk, root) ==
    IF maybe_pk = None
    THEN CryptoErr("missing NI-DKG dealing encryption key in local public key store")
    ELSE key_material_is_set_up_correctly(Unwrap(maybe_pk), root)
\* lines 265-275
ensure_idkg_dealing_encryption_key_is_set_up_locally(maybe_pk, root) ==
    IF maybe_pk = None
    THEN CryptoErr("missing iDKG dealing encryption key in local public key store")
    ELSE key_material_is_set_up_correctly(Unwrap(maybe_pk), root)
\* (mutant) a public key store without TLS certificate passes
ensure_tls_cert_is_set_up_locally_MissingOk(maybe_tls_cert, root) ==
    IF maybe_tls_cert = None
    THEN CryptoOk(TRUE)
    ELSE key_material_is_set_up_correctly(Unwrap(maybe_tls_cert), root)
\* lines 277-287
ensure_tls_cert_is_set_up_locally(maybe_tls_cert, root) ==
    IF maybe_tls_cert = None
    THEN CryptoErr("missing TLS public key certificate in local public key store")
    ELSE key_material_is_set_up_correctly(Unwrap(maybe_tls_cert), root)

\* lines 187-218
check_keys_locally(root) ==
    LET read == read_public_keys(root) IN
    IF ~read.ok THEN CryptoOk(None)
    ELSE
      LET node_pks == read.value
          node_signing == ensure_node_signing_key_is_set_up_locally(
                              node_pks.node_signing_pk, root)
          committee_signing == ensure_committee_signing_key_is_set_up_locally(
                                   node_pks.committee_signing_pk, root)
          dkg == ensure_dkg_dealing_encryption_key_is_set_up_locally(
                     node_pks.dkg_dealing_encryption_pk, root)
          tls == ensure_tls_cert_is_set_up_locally(node_pks.tls_certificate, root)
          idkg == ensure_idkg_dealing_encryption_key_is_set_up_locally(
                      node_pks.idkg_dealing_encryption_pk, root)
      IN
      IF node_public_keys_are_empty(node_pks) THEN CryptoOk(None)
      ELSE IF ~node_signing.ok THEN node_signing
      ELSE IF ~committee_signing.ok THEN committee_signing
      ELSE IF ~dkg.ok THEN dkg
      ELSE IF ~tls.ok THEN tls
      ELSE IF node_pks.idkg_dealing_encryption_pk # None /\ ~idkg.ok THEN idkg
      ELSE CryptoOk(Some(node_pks))

\* a generator (lines 47-76, 160-168, 289-322): the secret key goes to the
\* secret key store at crypto_root, the public key is returned
StoreSecretKey(root, pk) ==
    [root EXCEPT !.secret_keys = @ \cup {SecretKeyOf(pk)}]
\* public_key_store::store_node_public_keys
store_node_public_keys(root, node_pks) ==
    [root EXCEPT !.public_keys = Some(node_pks)]

KeysOk(node_pks, node_id) == [tag |-> "Ok", node_pks |-> node_pks, node_id |-> node_id]

\* lines 112-119, 136-144: the public keys are stored and read back
StoreAndRecheck(root, node_pks, fail) ==
    IF fail = "store"
    THEN [root |-> root, result |-> Panic("Failed to store public key material")]
    ELSE
      LET stored_root == store_node_public_keys(root, node_pks)
          stored_keys == check_keys_locally(stored_root)
      IN
      IF ~stored_keys.ok
      THEN [root |-> stored_root, result |-> Panic("Could not read generated keys.")]
      ELSE IF stored_keys.value = None
      THEN [root |-> stored_root, result |-> Panic("Newly generated keys are inconsistent.")]
      ELSE IF Unwrap(stored_keys.value) # node_pks
      THEN [root |-> stored_root,
            result |-> Panic("Generated keys differ from the stored ones.")]
      ELSE [root |-> stored_root,
            result |-> KeysOk(node_pks, derive_node_id(Unwrap(node_pks.node_signing_pk)))]

\* the number of the step that fails, one past the last when no generator does
FailStep(fail) ==
    IF \E i \in DOMAIN KeySteps : KeySteps[i] = fail
    THEN CHOOSE i \in DOMAIN KeySteps : KeySteps[i] = fail
    ELSE Len(KeySteps) + 1

\* lines 101-120: the branch Ok(None), which generates every key
GenerateNewKeys(root, draws, fail) ==
    LET committee_signing_pk == CommitteeSigningPk(draws["committee_signing"])
        node_signing_pk == NodeSigningPk(draws["node_signing"])
        node_id == derive_node_id(node_signing_pk)
        dkg_dealing_encryption_pk ==
            DkgDealingEncryptionPk(draws["dkg_dealing_encryption"], node_id)
        idkg_dealing_encryption_pk ==
            IDkgDealingEncryptionPk(draws["idkg_dealing_encryption"])
        tls_certificate == TlsCertificate(draws["tls"], node_id)
        generated == <<committee_signing_pk, node_signing_pk, dkg_dealing_encryption_pk,
                       idkg_dealing_encryption_pk, tls_certificate>>
        \* the generators that ran before the failing one stored their keys
        done == {SecretKeyOf(generated[i]) : i \in 1..(FailStep(fail) - 1)}
        with_secrets == [root EXCEPT !.secret_keys = @ \cup done]
        node_pks == [version |-> 1,
                     node_signing_pk |-> Some(node_signing_pk),
                     committee_signing_pk |-> Some(committee_signing_pk),
                     tls_certificate |-> Some(tls_certificate),
                     dkg_dealing_encryption_pk |-> Some(dkg_dealing_encryption_pk),
                     idkg_dealing_encryption_pk |-> Some(idkg_dealing_encryption_pk)]
    IN
    IF FailStep(fail) <= Len(KeySteps)
    THEN [root |-> with_secrets, result |-> Panic("Could not generate keys")]
    ELSE StoreAndRecheck(with_secrets, node_pks, fail)

\* (mutant) the I-DKG dealing encryption key is generated whether or not the
\* public keys have one
CompleteKeys_AlwaysIdkg(root, found, draws, fail) ==
    IF fail = "idkg_dealing_encryption"
    THEN [root |-> root, result |-> Panic("Failed to generate IDkg dealing encryption keys")]
    ELSE
      LET idkg_dealing_encryption_pk ==
              IDkgDealingEncryptionPk(draws["idkg_dealing_encryption"])
          node_pks == [found EXCEPT
                         !.idkg_dealing_encryption_pk = Some(idkg_dealing_encryption_pk),
                         !.version = 1]
      IN  StoreAndRecheck(StoreSecretKey(root, idkg_dealing_encryption_pk), node_pks, fail)
\* lines 122-152: the branch Ok(Some(node_pks)), which generates the I-DKG
\* dealing encryption key when the public keys have none
CompleteKeys(root, found, draws, fail) ==
    IF found.idkg_dealing_encryption_pk = None
    THEN
      IF fail = "idkg_dealing_encryption"
      THEN [root |-> root, result |-> Panic("Failed to generate IDkg dealing encryption keys")]
      ELSE
        LET idkg_dealing_encryption_pk ==
                IDkgDealingEncryptionPk(draws["idkg_dealing_encryption"])
            node_pks == [found EXCEPT
                           !.idkg_dealing_encryption_pk = Some(idkg_dealing_encryption_pk),
                           !.version = 1]
        IN  StoreAndRecheck(StoreSecretKey(root, idkg_dealing_encryption_pk), node_pks, fail)
    ELSE IF found.node_signing_pk = None
    THEN [root |-> root, result |-> Panic("Missing node signing public key")]
    ELSE [root |-> root,
          result |-> KeysOk(found, derive_node_id(Unwrap(found.node_signing_pk)))]

\* lines 99-158
get_node_keys_or_generate_if_missing(root, draws, fail) ==
    LET checked == check_keys_locally(root) IN
    IF ~checked.ok
    THEN [root |-> root, result |-> Panic("Node contains inconsistent key material")]
    ELSE IF checked.value = None
    THEN GenerateNewKeys(root, draws, fail)
    ELSE CompleteKeys(root, Unwrap(checked.value), draws, fail)

\* a crypto directory without key stores
EmptyCryptoRoot == [public_keys |-> None, secret_keys |-> {}]

Store == [configs |-> configs, rules |-> rules, incidents |-> incidents]

\* api::InputConfig values with rule lists up to a length
RuleLists(input_rules, n) == UNION {[1..k -> input_rules] : k \in 0..n}
ApiConfigs(input_rules, n) ==
    [schema_version : SchemaVersions, rules : RuleLists(input_rules, n)]

\* The outcomes of the random draws of one call, one per submitted rule (the
\* draw of a rule that is reused is not consulted).  RuleIds are compared for
\* equality only, so identifiers are taken in increasing order: a draw is a
\* failure of the random source, an identifier already stored or drawn, or
\* the least identifier that is neither.
MaxOf(S) == IF S = {} THEN 0 ELSE CHOOSE x \in S : \A y \in S : y <= x
CanonicalDraws(st, d) ==
    \A i \in DOMAIN d :
        \/ d[i] = None
        \/ Unwrap(d[i]) <= 1 + MaxOf(DOMAIN st.rules
                                     \cup {Unwrap(d[j]) : j \in {k \in 1..(i-1) : d[k] # None}})

\* the store before init, and the store init leaves: version INIT_VERSION
\* with no rules
InitConfig ==
    [schema_version |-> INIT_JSON_SCHEMA_VERSION, active_since |-> 10, rule_ids |-> <<>>]

Init ==
    /\ configs \in {<<>>, INIT_VERSION :> InitConfig}
    /\ rules = <<>>
    /\ incidents = <<>>
    /\ succeeded = 0
    /\ call = None
    /\ crypto_root = EmptyCryptoRoot
    /\ keys_calls = <<>>

\* The canister runs one call at a time, each to completion: add_config runs
\* as a whole and leaves its result to be delivered.
AddConfigCall(api_config, t, draws) ==
    \E out \in {add_config(Store, api_config, t, draws)} :
        /\ configs' = out.st.configs
        /\ rules' = out.st.rules
        /\ incidents' = out.st.incidents
        /\ succeeded' = IF out.result = Ok THEN succeeded + 1 ELSE succeeded
        /\ call' = Some([input_config |-> api_config, time |-> t, draws |-> draws,
                         before |-> Store, result |-> out.result])
        /\ UNCHANGED <<crypto_root, keys_calls>>

CanCall ==
    IF get_version(Store) = None THEN TRUE
    ELSE Unwrap(get_version(Store)) < MaxVersion

\* the draws of the positions add_config can reach and mint a rule at; the
\* draw of any other position is never consulted and is left at None
ReachedDraws(st, api_config, outcomes) ==
    LET next_config == InputConfigTryFrom(api_config)
        version == get_version(st)
        full == IF version = None THEN None ELSE get_full_config(st, Unwrap(version))
        consulted(i) ==
            /\ next_config.ok
            /\ full # None
            /\ existing_rule_idx(Unwrap(full), next_config.config.rules[i]) = None
        reached == {i \in DOMAIN api_config.rules : consulted(i)}
    IN  {[i \in DOMAIN api_config.rules |-> IF i \in reached THEN e[i] ELSE None] :
         e \in [reached -> outcomes]}
ConsultedDraws(st, api_config) ==
    {d \in ReachedDraws(st, api_config, DrawOutcomes) : CanonicalDraws(st, d)}

AddConfig ==
    /\ call = None
    /\ CanCall
    /\ \E api_config \in ApiConfigs(InputRules, MaxRules), t \in Times :
         \E draws \in ConsultedDraws(Store, api_config) :
            AddConfigCall(api_config, t, draws)

\* the result is delivered to the caller and the next call can run
Reply ==
    /\ call # None
    /\ call' = None
    /\ UNCHANGED <<configs, rules, incidents, succeeded, crypto_root, keys_calls>>

\* the disclosure operation of the canister on one incident: the incident
\* becomes disclosed and its rules not yet disclosed get disclosed_at
DiscloseTime == 12
DiscloseIncident ==
    /\ call = None
    /\ \E incident_id \in DOMAIN incidents :
        /\ ~incidents[incident_id].is_disclosed
        /\ incidents' = [incidents EXCEPT ![incident_id].is_disclosed = TRUE]
        /\ rules' = [rule_id \in DOMAIN rules |->
                       IF /\ rule_id \in incidents[incident_id].rule_ids
                          /\ rules[rule_id].disclosed_at = None
                       THEN [rules[rule_id] EXCEPT !.disclosed_at = Some(DiscloseTime)]
                       ELSE rules[rule_id]]
        /\ UNCHANGED <<configs, succeeded, call, crypto_root, keys_calls>>

Next == AddConfig \/ Reply \/ DiscloseIncident

Spec == Init /\ [][Next]_vars

(***************************************************************************)
(* SpecOneCall: one add_config call on a store that holds no rule yet      *)
(* (before or after init), its submission drawn from longer lists of more  *)
(* rules.                                                                  *)
(***************************************************************************)
OneCall ==
    /\ call = None
    /\ \E api_config \in ApiConfigs(OneCallInputRules, MaxOneCallRules), t \in Times :
         \E draws \in ConsultedDraws(Store, api_config) :
            AddConfigCall(api_config, t, draws)

NextOneCall == OneCall

SpecOneCall == Init /\ [][NextOneCall]_vars

(***************************************************************************)
(* SpecScenario: the five submissions of test_add_config_success, one      *)
(* after the other on the store init leaves, each repeated until it        *)
(* succeeds.  Rules 1 and 2 are of incident aa, rule 3 of bb, rule 4 of bb *)
(* and rule 5 of cc.  The fourth submission drops rules 1 and 2 and keeps  *)
(* rule 3 (the test's config_5 drops rules 1 and 3 and keeps rule 2).      *)
(* Every draw yields any of MaxScenarioRuleIds identifiers or fails.       *)
(***************************************************************************)
MaxScenarioRuleIds == 5
ScenarioDrawOutcomes == {None} \cup {Some(id) : id \in 1..MaxScenarioRuleIds}
ScenarioRule1 == [incident_id |-> "aa", rule_raw |-> <<"a", "b">>, description |-> "d1"]
ScenarioRule1ReEncoded == [incident_id |-> "aa", rule_raw |-> <<"b", "a">>, description |-> "d1"]
ScenarioRule2 == [incident_id |-> "aa", rule_raw |-> <<"a", "b">>, description |-> "d2"]
ScenarioRule2ReEncoded == [incident_id |-> "aa", rule_raw |-> <<"b", "a">>, description |-> "d2"]
ScenarioRule3 == [incident_id |-> "bb", rule_raw |-> <<>>, description |-> "d3"]
ScenarioRule4 == [incident_id |-> "bb", rule_raw |-> <<"a">>, description |-> "d4"]
ScenarioRule5 == [incident_id |-> "cc", rule_raw |-> <<"b">>, description |-> "d5"]
ScenarioConfigs ==
    << [schema_version |-> INIT_JSON_SCHEMA_VERSION,
        rules |-> <<ScenarioRule1, ScenarioRule2>>],
       [schema_version |-> INIT_JSON_SCHEMA_VERSION + 1,
        rules |-> <<ScenarioRule2, ScenarioRule1>>],
       [schema_version |-> INIT_JSON_SCHEMA_VERSION + 1,
        rules |-> <<ScenarioRule1ReEncoded, ScenarioRule3, ScenarioRule2ReEncoded>>],
       [schema_version |-> INIT_JSON_SCHEMA_VERSION + 1,
        rules |-> <<ScenarioRule4, ScenarioRule3, ScenarioRule5>>],
       [schema_version |-> INIT_JSON_SCHEMA_VERSION + 1,
        rules |-> <<>>] >>

InitScenario ==
    /\ configs = INIT_VERSION :> InitConfig
    /\ rules = <<>>
    /\ incidents = <<>>
    /\ succeeded = 0
    /\ call = None
    /\ crypto_root = EmptyCryptoRoot
    /\ keys_calls = <<>>

\* the next submission of the scenario, at the times current_time, current_time
\* + 1, ... of the test
ScenarioCall ==
    /\ call = None
    /\ succeeded < Len(ScenarioConfigs)
    /\ \E draws \in ReachedDraws(Store, ScenarioConfigs[succeeded + 1],
                                 ScenarioDrawOutcomes) :
         AddConfigCall(ScenarioConfigs[succeeded + 1],
                       InitConfig.active_since + succeeded, draws)

NextScenario == ScenarioCall \/ Reply

SpecScenario == InitScenario /\ [][NextScenario]_vars

(***************************************************************************)
(* SpecOverflow: calls on the store init leaves until the version is the   *)
(* largest one a Version can hold, and calls on that store.  Submissions   *)
(* are short so that the store gets there.                                 *)
(***************************************************************************)
MaxOverflowRules == 1
OverflowInputRules ==
    {[incident_id |-> "aa", rule_raw |-> <<"a", "b">>, description |-> "d1"],
     [incident_id |-> "bb", rule_raw |-> <<"a", "b">>, description |-> "d1"],
     [incident_id |-> "aa", rule_raw |-> <<"not_a_valid_json">>, description |-> "d1"]}

OverflowCall ==
    /\ call = None
    /\ \E api_config \in ApiConfigs(OverflowInputRules, MaxOverflowRules), t \in Times :
         \E draws \in ConsultedDraws(Store, api_config) :
            AddConfigCall(api_config, t, draws)

NextOverflow == OverflowCall \/ Reply \/ DiscloseIncident

SpecOverflow == InitScenario /\ [][NextOverflow]_vars

(***************************************************************************)
(* SpecKeys: calls of get_node_keys_or_generate_if_missing on a crypto     *)
(* directory found in any condition: with or without public key store,     *)
(* with any of the public keys, with or without their secret keys.         *)
(***************************************************************************)
InitialNodeId == derive_node_id(NodeSigningPk(1))
InitialPublicKeys ==
    [version : {0, 1},
     node_signing_pk : {None, Some(NodeSigningPk(1))},
     committee_signing_pk : {None, Some(CommitteeSigningPk(1))},
     tls_certificate : {None, Some(TlsCertificate(1, InitialNodeId))},
     dkg_dealing_encryption_pk : {None, Some(DkgDealingEncryptionPk(1, InitialNodeId))},
     idkg_dealing_encryption_pk : {None, Some(IDkgDealingEncryptionPk(1))}]
\* the secret key store holds no key, every key, or every key but one
AllInitialSecretKeys ==
    {SecretKeyOf(NodeSigningPk(1)), SecretKeyOf(CommitteeSigningPk(1)),
     SecretKeyOf(TlsCertificate(1, InitialNodeId)),
     SecretKeyOf(DkgDealingEncryptionPk(1, InitialNodeId)),
     SecretKeyOf(IDkgDealingEncryptionPk(1))}
InitialSecretKeys ==
    {{}, AllInitialSecretKeys}
        \cup {AllInitialSecretKeys \ {secret_key} : secret_key \in AllInitialSecretKeys}
InitialCryptoRoots ==
    [public_keys : {None} \cup {Some(node_pks) : node_pks \in InitialPublicKeys},
     secret_keys : InitialSecretKeys]

InitKeys ==
    /\ configs = <<>>
    /\ rules = <<>>
    /\ incidents = <<>>
    /\ succeeded = 0
    /\ call = None
    /\ crypto_root \in InitialCryptoRoots
    /\ keys_calls = <<>>

\* one call of get_node_keys_or_generate_if_missing, run as a whole
GetNodeKeys ==
    /\ Len(keys_calls) < MaxKeyCalls
    /\ \E draws \in KeyDraws, fail \in FailPoints :
         \E out \in {get_node_keys_or_generate_if_missing(crypto_root, draws, fail)} :
            /\ crypto_root' = out.root
            /\ keys_calls' = Append(keys_calls, [before |-> crypto_root,
                                                  after |-> out.root,
                                                  result |-> out.result])
    /\ UNCHANGED <<configs, rules, incidents, succeeded, call>>

NextKeys == GetNodeKeys

SpecKeys == InitKeys /\ [][NextKeys]_vars

(***************************************************************************)
(* Properties of add_config.  In a state where a call is being answered,   *)
(* Input, Time, RandomDraws, Before and Result are the call's submission,  *)
(* timestamp, draws, the store it found and the value it returned; Store   *)
(* is the store it left.                                                   *)
(***************************************************************************)
Called == call # None
Input == Unwrap(call).input_config
Time == Unwrap(call).time
RandomDraws == Unwrap(call).draws
Before == Unwrap(call).before
Result == Unwrap(call).result

\* the submission passes validation
IsValid(c) == InputConfigTryFrom(c).ok
\* the store holds a version, and its current version and active rules
Initialised(st) == DOMAIN st.configs # {}
CurrentVersion(st) == Max(DOMAIN st.configs)
ActiveIds(st) == st.configs[CurrentVersion(st)].rule_ids
\* a submitted entry and a stored rule have the same content: same incident,
\* same parsed rule_raw, same description
SameContent(entry, stored) ==
    /\ UuidParse(entry.incident_id) = Some(stored.incident_id)
    /\ JsonParse(entry.rule_raw) # None
    /\ JsonParse(entry.rule_raw) = JsonParse(stored.rule_raw)
    /\ entry.description = stored.description
\* the entry has no content match among the currently active rules
NoActiveMatch(st, entry) ==
    \A j \in DOMAIN ActiveIds(st) : ~SameContent(entry, st.rules[ActiveIds(st)[j]])
\* the draw of position i yields an identifier that is not stored yet
FreshDraw(st, d, i) == d[i] # None /\ Unwrap(d[i]) \notin DOMAIN st.rules

\* C1: an add_config call that ends with an InvalidInputConfig error
\* (InvalidIncidentUuidFormat, InvalidRuleJsonEncoding or DuplicateRules)
\* leaves the version, every config, every rule and every incident as they
\* were before the call.
C1_InvalidInputLeavesStore ==
    (Called /\ Result.tag = "InvalidInputConfig") => Store = Before

\* a store that holds rules has rejected a submission as DuplicateRules(0, 1)
\* whose first entry is a rule it would have accepted as new
C1_Witness ==
    /\ Called
    /\ Result = DuplicateRules(0, 1)
    /\ DOMAIN Before.rules # {}
    /\ NoActiveMatch(Before, Input.rules[1])

\* the incident a valid entry names, and whether the entry is a rule without
\* content match among the active rules whose incident is stored as disclosed
IncidentOf(entry) == Unwrap(UuidParse(entry.incident_id))
LinksToDisclosed(st, entry) ==
    /\ NoActiveMatch(st, entry)
    /\ IncidentOf(entry) \in DOMAIN st.incidents
    /\ st.incidents[IncidentOf(entry)].is_disclosed
FirstLinkingToDisclosed(st, c) ==
    CHOOSE i \in DOMAIN c.rules :
        /\ LinksToDisclosed(st, c.rules[i])
        /\ \A k \in 1..(i - 1) : ~LinksToDisclosed(st, c.rules[k])
C2_Applies ==
    /\ Called
    /\ IsValid(Input)
    /\ Initialised(Before)
    /\ \E i \in DOMAIN Input.rules : LinksToDisclosed(Before, Input.rules[i])

\* C2 as stated: a valid submission with a rule that has no content match
\* among the active rules and whose incident is stored as disclosed always
\* fails with LinkingRuleToDisclosedIncident{index, incident_id} of the first
\* such rule, and nothing in the store changes.
C2_Original ==
    C2_Applies =>
        LET i == FirstLinkingToDisclosed(Before, Input) IN
        /\ Result = LinkingRuleToDisclosedIncident(i - 1, IncidentOf(Input.rules[i]))
        /\ Store = Before

\* C2 amended: such a submission changes nothing in the store; it fails with
\* LinkingRuleToDisclosedIncident{index, incident_id} of the first such rule
\* when the draw of every rule without content match up to and including
\* that rule yields an identifier that is not stored, and with Internal
\* otherwise.
C2_LinkingToDisclosedRejected ==
    C2_Applies =>
        LET i == FirstLinkingToDisclosed(Before, Input) IN
        /\ Store = Before
        /\ IF \A k \in 1..i :
                 NoActiveMatch(Before, Input.rules[k]) => FreshDraw(Before, RandomDraws, k)
           THEN Result = LinkingRuleToDisclosedIncident(i - 1, IncidentOf(Input.rules[i]))
           ELSE Result.tag = "Internal"

\* a submission has been rejected at index 1 for its second rule after its
\* first rule, new and of an incident that is not disclosed, got an identifier
C2_Witness ==
    /\ Called
    /\ Len(Input.rules) = 2
    /\ IsValid(Input)
    /\ Initialised(Before)
    /\ NoActiveMatch(Before, Input.rules[1])
    /\ ~LinksToDisclosed(Before, Input.rules[1])
    /\ FreshDraw(Before, RandomDraws, 1)
    /\ LinksToDisclosed(Before, Input.rules[2])
    /\ Result = LinkingRuleToDisclosedIncident(1, IncidentOf(Input.rules[2]))

\* every submitted rule without content match among the active rules drew
\* an identifier that is not stored yet
AllNewDrawsFresh ==
    \A k \in DOMAIN Input.rules :
        NoActiveMatch(Before, Input.rules[k]) => FreshDraw(Before, RandomDraws, k)
\* entry p of the submission is content-equal to the active rule at position
\* j, whose incident is disclosed
ResubmitsDisclosed(p, j) ==
    /\ SameContent(Input.rules[p], Before.rules[ActiveIds(Before)[j]])
    /\ Before.incidents[Before.rules[ActiveIds(Before)[j]].incident_id].is_disclosed
C3_Applies ==
    /\ Called
    /\ IsValid(Input)
    /\ Initialised(Before)
    /\ \E p \in DOMAIN Input.rules, j \in DOMAIN ActiveIds(Before) : ResubmitsDisclosed(p, j)
    /\ \A k \in DOMAIN Input.rules : ~LinksToDisclosed(Before, Input.rules[k])
C3_KeepsIds ==
    /\ Result = Ok
    /\ \A p \in DOMAIN Input.rules, j \in DOMAIN ActiveIds(Before) :
         ResubmitsDisclosed(p, j) => ActiveIds(Store)[p] = ActiveIds(Before)[j]

\* C3 as stated: a call that resubmits an active rule of an incident
\* disclosed since, and mints no new rule for a disclosed incident, succeeds
\* and the rule keeps its RuleId in the new version.
C3_Original == C3_Applies => C3_KeepsIds

\* C3 amended: such a call is never rejected with
\* LinkingRuleToDisclosedIncident; when the draw of every new rule of the
\* submission yields an identifier that is not stored, it succeeds and the
\* rule keeps its RuleId in the new version.
C3_ReusedRulesNotGated ==
    C3_Applies =>
        /\ Result.tag # "LinkingRuleToDisclosedIncident"
        /\ AllNewDrawsFresh => C3_KeepsIds

\* a call has succeeded that resubmitted, re-encoded or not, an active rule of
\* a disclosed incident together with a new rule, and the rule kept its id
C3_Witness ==
    /\ C3_Applies
    /\ Result = Ok
    /\ Len(Input.rules) = 2
    /\ \E p \in DOMAIN Input.rules :
         /\ NoActiveMatch(Before, Input.rules[p])
         /\ ActiveIds(Store)[p] \notin DOMAIN Before.rules
    /\ \E p \in DOMAIN Input.rules, j \in DOMAIN ActiveIds(Before) :
         /\ ResubmitsDisclosed(p, j)
         /\ ActiveIds(Store)[p] = ActiveIds(Before)[j]

\* C4: in a store initialised at version 1, after k successful add_config
\* calls the current version is 1 + k and every version from 1 to it has a
\* config record; a successful call raises the version by 1 and creates the
\* one config record of the new version, a failed call leaves version and
\* config records unchanged.
C4_VersionCountsSuccesses ==
    /\ Initialised(Store) =>
         /\ CurrentVersion(Store) = INIT_VERSION + succeeded
         /\ DOMAIN configs = INIT_VERSION..CurrentVersion(Store)
    /\ (Called /\ Initialised(Before)) =>
         IF Result = Ok
         THEN /\ get_version(Store) = Some(CurrentVersion(Before) + 1)
              /\ DOMAIN configs = DOMAIN Before.configs \cup {CurrentVersion(Before) + 1}
              /\ \A v \in DOMAIN Before.configs : configs[v] = Before.configs[v]
         ELSE /\ get_version(Store) = get_version(Before)
              /\ configs = Before.configs

\* a call has failed after two calls succeeded, and the version is 3
C4_Witness ==
    /\ Called
    /\ Result.tag = "Internal"
    /\ succeeded = 2
    /\ get_version(Store) = Some(3)

\* C5 as stated: on a store that holds no version, add_config fails with an
\* Internal error for every submission and creates no config, rule or
\* incident record.
C5_Original ==
    (Called /\ ~Initialised(Before)) =>
        /\ Result.tag = "Internal"
        /\ Store = Before

\* C5 amended: on a store that holds no version, add_config creates no
\* config, rule or incident record; it fails with an Internal error for every
\* submission that passes validation and with the InvalidInputConfig error of
\* the validation for every other submission.
C5_UninitialisedStoreRejects ==
    (Called /\ ~Initialised(Before)) =>
        /\ Store = Before
        /\ Result = IF IsValid(Input)
                    THEN Internal("No existing config version found")
                    ELSE InputConfigTryFrom(Input).err

\* a valid submission of rules has been rejected by a store without version
C5_Witness ==
    /\ Called
    /\ ~Initialised(Before)
    /\ IsValid(Input)
    /\ Len(Input.rules) >= 2
    /\ Result = Internal("No existing config version found")
    /\ rules = <<>> /\ configs = <<>> /\ incidents = <<>>

\* an entry is well-formed when its incident id is a UUID and its rule_raw is
\* JSON; two well-formed entries are content-equal when incident, parsed
\* rule_raw and description are the same
WellFormed(entry) ==
    UuidParse(entry.incident_id) # None /\ JsonParse(entry.rule_raw) # None
ContentEqual(e1, e2) ==
    /\ UuidParse(e1.incident_id) = UuidParse(e2.incident_id)
    /\ JsonParse(e1.rule_raw) = JsonParse(e2.rule_raw)
    /\ e1.description = e2.description
CollidingPairs(c) ==
    {pair \in (DOMAIN c.rules) \X (DOMAIN c.rules) :
        /\ pair[1] < pair[2]
        /\ WellFormed(c.rules[pair[1]])
        /\ WellFormed(c.rules[pair[2]])
        /\ ContentEqual(c.rules[pair[1]], c.rules[pair[2]])}
\* entry i is the one malformed entry of the submission, and no two entries
\* before it are content-equal
OnlyMalformedAt(c, i) ==
    /\ i \in DOMAIN c.rules
    /\ ~WellFormed(c.rules[i])
    /\ \A k \in DOMAIN c.rules \ {i} : WellFormed(c.rules[k])
    /\ \A pair \in CollidingPairs(c) : pair[2] > i
\* the errors that name a defect of the entry at an index
MalformedErrors(entry, idx) ==
    (IF UuidParse(entry.incident_id) = None
     THEN {InvalidIncidentUuidFormat(idx)} ELSE {})
    \cup
    (IF JsonParse(entry.rule_raw) = None
     THEN {InvalidRuleJsonEncoding(idx)} ELSE {})
UninitialisedStore == [configs |-> <<>>, rules |-> <<>>, incidents |-> <<>>]

C7_FirstCollidingPair ==
    (Called /\ \A i \in DOMAIN Input.rules : WellFormed(Input.rules[i])) =>
        IF CollidingPairs(Input) = {}
        THEN Result.tag # "InvalidInputConfig"
        ELSE \E pair \in CollidingPairs(Input) :
               /\ Result = DuplicateRules(pair[1] - 1, pair[2] - 1)
               /\ \A other \in CollidingPairs(Input) :
                    (other[1] <= pair[1] /\ other[2] <= pair[2]) => other = pair

\* a submission of four entries with two content-equal pairs, one of them a
\* pair of different encodings, has been rejected as DuplicateRules
C7_Witness ==
    /\ Called
    /\ Len(Input.rules) = 4
    /\ \A i \in DOMAIN Input.rules : WellFormed(Input.rules[i])
    /\ \E p1, p2 \in CollidingPairs(Input) :
         /\ p1[1] # p2[1] /\ p1[2] # p2[2]
         /\ Input.rules[p1[1]] # Input.rules[p1[2]]
    /\ Result.tag = "InvalidInputConfig"
    /\ Result.kind = "DuplicateRules"

\* the positions of the active rules with the content of a submitted entry
ActiveMatches(st, entry) ==
    {j \in DOMAIN ActiveIds(st) : SameContent(entry, st.rules[ActiveIds(st)[j]])}
SucceededOnInitialised == Called /\ Initialised(Before) /\ Result = Ok

\* C8: in a successful call, a submitted rule with the incident, the parsed
\* rule_raw and the description of an active rule gets the identifier of that
\* rule and its record is left as it was; a submitted rule that differs from
\* every active rule in one of the three gets an identifier that was not
\* stored, with a record added in the new version; no other record is added.
C8_CanonicalContentEquality ==
    SucceededOnInitialised =>
        /\ \A p \in DOMAIN Input.rules :
             LET rule_id == ActiveIds(Store)[p] IN
             IF ActiveMatches(Before, Input.rules[p]) # {}
             THEN /\ \E j \in ActiveMatches(Before, Input.rules[p]) :
                       rule_id = ActiveIds(Before)[j]
                  /\ rules[rule_id] = Before.rules[rule_id]
             ELSE /\ rule_id \notin DOMAIN Before.rules
                  /\ rule_id \in DOMAIN rules
                  /\ rules[rule_id].added_in_version = CurrentVersion(Store)
        /\ DOMAIN rules \ DOMAIN Before.rules =
             {ActiveIds(Store)[p] : p \in
                {q \in DOMAIN Input.rules : ActiveMatches(Before, Input.rules[q]) = {}}}

\* a call has succeeded with an active rule resubmitted in another encoding,
\* which kept its identifier, next to a rule that differs from it in the
\* parsed rule_raw and the description, which got a new one
C8_Witness ==
    /\ SucceededOnInitialised
    /\ Len(Input.rules) = 2
    /\ \E p \in DOMAIN Input.rules, j \in DOMAIN ActiveIds(Before) :
         /\ SameContent(Input.rules[p], Before.rules[ActiveIds(Before)[j]])
         /\ Input.rules[p].rule_raw # Before.rules[ActiveIds(Before)[j]].rule_raw
         /\ ActiveIds(Store)[p] = ActiveIds(Before)[j]
    /\ \E p \in DOMAIN Input.rules :
         /\ ActiveMatches(Before, Input.rules[p]) = {}
         /\ ActiveIds(Store)[p] \notin DOMAIN Before.rules

\* the submission has the rules of the current config, content-equal
\* position by position
ResubmitsCurrent ==
    /\ Called
    /\ Initialised(Before)
    /\ Len(Input.rules) = Len(ActiveIds(Before))
    /\ \A p \in DOMAIN Input.rules :
         SameContent(Input.rules[p], Before.rules[ActiveIds(Before)[p]])
AppendsConfigOnly(rule_ids) ==
    /\ Result = Ok
    /\ rules = Before.rules
    /\ incidents = Before.incidents
    /\ DOMAIN configs = DOMAIN Before.configs \cup {CurrentVersion(Before) + 1}
    /\ \A v \in DOMAIN Before.configs : configs[v] = Before.configs[v]
    /\ configs[CurrentVersion(Before) + 1].rule_ids = rule_ids

\* the identifiers of the current config are pairwise distinct
DistinctActiveIds(st) ==
    \A a, b \in DOMAIN ActiveIds(st) : ActiveIds(st)[a] = ActiveIds(st)[b] => a = b

\* C9 as stated: resubmitting the rules of the current config,
\* content-identical and in the same order, changes no rule and no incident
\* record; the store differs by one config record at version + 1 with the
\* same ordered rule_ids.
C9_Original == ResubmitsCurrent => AppendsConfigOnly(ActiveIds(Before))

\* C9 where the current config holds no identifier twice: the resubmission
\* succeeds and appends the config record only.
C9_WithDistinctIds ==
    (ResubmitsCurrent /\ DistinctActiveIds(Before)) =>
        AppendsConfigOnly(ActiveIds(Before))

\* a current config of two rules has been resubmitted with a rule re-encoded
C9_Witness ==
    /\ ResubmitsCurrent
    /\ Len(Input.rules) = 2
    /\ DistinctActiveIds(Before)
    /\ \E p \in DOMAIN Input.rules :
         Input.rules[p].rule_raw # Before.rules[ActiveIds(Before)[p]].rule_raw
    /\ Result = Ok

\* the injective maps of 1..n into itself
RuleOrders(n) ==
    {f \in [1..n -> 1..n] : \A a, b \in 1..n : f[a] = f[b] => a = b}
\* the submission has the rules of the current config, entry p content-equal
\* to the active rule at position f[p]
PermutesCurrent(f) ==
    /\ Called
    /\ Initialised(Before)
    /\ Len(Input.rules) = Len(ActiveIds(Before))
    /\ \A p \in DOMAIN Input.rules :
         SameContent(Input.rules[p], Before.rules[ActiveIds(Before)[f[p]]])

\* C10 as stated: submitting a permutation of the active rules creates a
\* version whose rule_ids is the same permutation of the previous rule_ids; no
\* identifier is minted, no rule is marked removed, no record changes.
C10_Original ==
    Called =>
        \A f \in RuleOrders(Len(Input.rules)) :
            PermutesCurrent(f) =>
                AppendsConfigOnly([p \in DOMAIN Input.rules |-> ActiveIds(Before)[f[p]]])

\* C10 where the current config holds no identifier twice: the new version's
\* rule_ids is the permutation of the previous rule_ids.
C10_WithDistinctIds ==
    Called =>
        \A f \in RuleOrders(Len(Input.rules)) :
            (PermutesCurrent(f) /\ DistinctActiveIds(Before)) =>
                AppendsConfigOnly([p \in DOMAIN Input.rules |-> ActiveIds(Before)[f[p]]])

\* the two rules of a current config have been resubmitted swapped
C10_Witness ==
    /\ Called
    /\ Len(Input.rules) = 2
    /\ PermutesCurrent(<<2, 1>>)
    /\ DistinctActiveIds(Before)
    /\ Result = Ok
    /\ ActiveIds(Store) = <<ActiveIds(Before)[2], ActiveIds(Before)[1]>>

\* the positions of the submission whose rule has no content match among the
\* active rules, and whether their draws are pairwise distinct
NewPositions == {p \in DOMAIN Input.rules : ActiveMatches(Before, Input.rules[p]) = {}}
DistinctDraws ==
    \A p, q \in NewPositions : RandomDraws[p] = RandomDraws[q] => p = q
\* the config record of the current version
CurrentConfig(st) == st.configs[CurrentVersion(st)]
PreservesSubmission ==
    /\ Len(CurrentConfig(Store).rule_ids) = Len(Input.rules)
    /\ \A i \in DOMAIN Input.rules :
         /\ CurrentConfig(Store).rule_ids[i] \in DOMAIN rules
         /\ SameContent(Input.rules[i], rules[CurrentConfig(Store).rule_ids[i]])
    /\ CurrentConfig(Store).schema_version = Input.schema_version
    /\ CurrentConfig(Store).active_since = Time

\* C11 as stated: the config record committed by a successful add_config has
\* as many rule_ids as the submission has rules, the stored rule of rule_ids[i]
\* is content-equal to the i-th submitted rule, its schema_version is the
\* submitted one and its active_since is the supplied timestamp.
C11_Original == SucceededOnInitialised => PreservesSubmission

\* C11 where the draws of the call's new rules are pairwise distinct: the
\* committed config record preserves the submission.
C11_WithDistinctDraws ==
    (SucceededOnInitialised /\ DistinctDraws) => PreservesSubmission

\* a call has committed a config of a reused, re-encoded rule and a new rule
C11_Witness ==
    /\ SucceededOnInitialised
    /\ Len(Input.rules) = 2
    /\ DistinctDraws
    /\ NewPositions # {}
    /\ \E p \in DOMAIN Input.rules \ NewPositions :
         Input.rules[p].rule_raw # rules[CurrentConfig(Store).rule_ids[p]].rule_raw
    /\ PreservesSubmission

\* the identifiers of the active rules that no entry of the submission matches
DroppedIds ==
    {ActiveIds(Before)[j] : j \in
        {k \in DOMAIN ActiveIds(Before) :
            \A p \in DOMAIN Input.rules :
                ~SameContent(Input.rules[p], Before.rules[ActiveIds(Before)[k]])}}
MarksDropped ==
    SucceededOnInitialised =>
        \A rule_id \in DroppedIds :
            /\ rule_id \in DOMAIN rules
            /\ rules[rule_id].removed_in_version = Some(CurrentVersion(Before) + 1)
RemovedStaysRemoved ==
    \A rule_id \in DOMAIN rules :
        rules[rule_id].removed_in_version # None =>
            /\ rule_id \in DOMAIN rules'
            /\ rules'[rule_id].removed_in_version = rules[rule_id].removed_in_version

\* C12: a rule active in version v that the call creating version v + 1 does
\* not resubmit keeps its record, with removed_in_version = v + 1; no later
\* step removes the record or changes or clears its removed_in_version.
C12_RemovedForGood == []MarksDropped /\ [][RemovedStaysRemoved]_vars

\* a rule added in version 2 and dropped in version 3 is stored as removed in
\* version 3 after the call that created version 4
C12_Witness ==
    /\ SucceededOnInitialised
    /\ CurrentVersion(Store) = 4
    /\ \E rule_id \in DOMAIN rules :
         /\ rules[rule_id].added_in_version = 2
         /\ rules[rule_id].removed_in_version = Some(3)

\* the stored rules, removed before the call, whose content entry p resubmits
RemovedMatches(p) ==
    {old \in DOMAIN Before.rules :
        /\ Before.rules[old].removed_in_version # None
        /\ SameContent(Input.rules[p], Before.rules[old])}
ResubmitsRemoved(p) ==
    /\ p \in DOMAIN Input.rules
    /\ NoActiveMatch(Before, Input.rules[p])
    /\ RemovedMatches(p) # {}

\* C13: in a successful call, a submitted rule with the content of a rule that
\* was removed in an earlier version (and of no active rule) gets an identifier
\* that differs from the removed rule's and was not stored, with a record whose
\* added_in_version is the new version; the record of the removed rule is left
\* as it was (identifier, added_in_version, removed_in_version).
C13_RemovedContentGetsNewId ==
    SucceededOnInitialised =>
        \A p \in DOMAIN Input.rules : ResubmitsRemoved(p) =>
            /\ CurrentConfig(Store).rule_ids[p] \notin DOMAIN Before.rules
            /\ CurrentConfig(Store).rule_ids[p] \in DOMAIN rules
            /\ rules[CurrentConfig(Store).rule_ids[p]].added_in_version = CurrentVersion(Store)
            /\ \A old \in RemovedMatches(p) :
                 /\ old # CurrentConfig(Store).rule_ids[p]
                 /\ old \in DOMAIN rules
                 /\ rules[old].added_in_version = Before.rules[old].added_in_version
                 /\ rules[old].removed_in_version = Before.rules[old].removed_in_version

\* the third call resubmits the content of a rule added in version 2 and
\* removed in version 3: two records now hold that content
C13_Witness ==
    /\ SucceededOnInitialised
    /\ CurrentVersion(Store) = 4
    /\ \E p \in DOMAIN Input.rules :
         /\ ResubmitsRemoved(p)
         /\ \E old \in RemovedMatches(p) :
              /\ rules[old].added_in_version = 2
              /\ rules[old].removed_in_version = Some(3)
              /\ SameContent(Input.rules[p], rules[CurrentConfig(Store).rule_ids[p]])
              /\ rules[CurrentConfig(Store).rule_ids[p]].added_in_version = 4

MintedIds == {CurrentConfig(Store).rule_ids[p] : p \in NewPositions}
UniqueMinting ==
    /\ \A p \in NewPositions : CurrentConfig(Store).rule_ids[p] \notin DOMAIN Before.rules
    /\ \A p, q \in NewPositions :
         CurrentConfig(Store).rule_ids[p] = CurrentConfig(Store).rule_ids[q] => p = q
    /\ Cardinality(DOMAIN rules \ DOMAIN Before.rules) = Cardinality(NewPositions)

\* C14: in a successful call, every identifier minted for a new rule differs
\* from every identifier already stored and from every other identifier minted
\* in the same call, and the call stores one record per new rule.
C14_Original == SucceededOnInitialised => UniqueMinting

\* the same, for calls whose draws at the new positions are pairwise distinct
C14_WithDistinctDraws == (SucceededOnInitialised /\ DistinctDraws) => UniqueMinting

\* a successful call with two new rules that both drew the same identifier:
\* one record is stored for the two rules
C14_Witness ==
    /\ SucceededOnInitialised
    /\ Cardinality(NewPositions) = 2
    /\ ~DistinctDraws
    /\ Cardinality(MintedIds) = 1
    /\ Cardinality(DOMAIN rules \ DOMAIN Before.rules) = 1

ContentTriple(rule) == <<rule.incident_id, rule.rule_raw, rule.description>>
ContentFrozen ==
    \A rule_id \in DOMAIN rules :
        /\ rule_id \in DOMAIN rules'
        /\ ContentTriple(rules'[rule_id]) = ContentTriple(rules[rule_id])
\* entry p matches an active rule whose stored rule_raw bytes differ from the
\* submitted ones
ReEncodes(p) ==
    \E j \in ActiveMatches(Before, Input.rules[p]) :
        Before.rules[ActiveIds(Before)[j]].rule_raw # Input.rules[p].rule_raw
KeepsStoredBytes ==
    SucceededOnInitialised =>
        \A p \in DOMAIN Input.rules : ReEncodes(p) =>
            /\ CurrentConfig(Store).rule_ids[p] \in DOMAIN Before.rules
            /\ ContentTriple(rules[CurrentConfig(Store).rule_ids[p]])
                 = ContentTriple(Before.rules[CurrentConfig(Store).rule_ids[p]])
            /\ rules[CurrentConfig(Store).rule_ids[p]].rule_raw # Input.rules[p].rule_raw

\* C15: the incident_id, the rule_raw bytes and the description stored under
\* an identifier are the same in every later state; a successful call that
\* resubmits an active rule with other rule_raw bytes of the same parsed value
\* leaves the stored bytes as they were.
C15_ContentNeverChanges == [][ContentFrozen]_vars /\ []KeepsStoredBytes

\* a successful call resubmitted an active rule in another encoding
C15_Witness ==
    /\ SucceededOnInitialised
    /\ \E p \in DOMAIN Input.rules :
         /\ ReEncodes(p)
         /\ JsonParse(Input.rules[p].rule_raw)
              = JsonParse(rules[CurrentConfig(Store).rule_ids[p]].rule_raw)
         /\ rules[CurrentConfig(Store).rule_ids[p]].added_in_version < CurrentVersion(Store)

\* C16: in every state, a stored rule whose removed_in_version is set has
\* added_in_version <= removed_in_version.
C16_AddedBeforeRemoved ==
    \A rule_id \in DOMAIN rules :
        rules[rule_id].removed_in_version # None =>
            rules[rule_id].added_in_version <= Unwrap(rules[rule_id].removed_in_version)

\* the last call removed a rule that an earlier call had added
C16_Witness ==
    /\ SucceededOnInitialised
    /\ \E rule_id \in DOMAIN Before.rules :
         /\ Before.rules[rule_id].removed_in_version = None
         /\ rules[rule_id].removed_in_version = Some(CurrentVersion(Store))
         /\ rules[rule_id].added_in_version < CurrentVersion(Store)

ConfigsFrozen ==
    \A version \in DOMAIN configs :
        /\ version \in DOMAIN configs'
        /\ configs'[version] = configs[version]

\* C17: a config stored at a version is stored at that version, with the same
\* schema_version, active_since and rule_ids, in every later state, whatever
\* calls succeed or fail in between.
C17_ConfigsNeverEdited == [][ConfigsFrozen]_vars

\* the third successful call left version 2, which has rules, and version 3 as
\* they were, and added a version 4 with other rules than version 2
C17_Witness ==
    /\ SucceededOnInitialised
    /\ CurrentVersion(Store) = 4
    /\ \A version \in DOMAIN Before.configs : configs[version] = Before.configs[version]
    /\ configs[2].rule_ids # <<>>
    /\ configs[4].rule_ids # configs[2].rule_ids

\* the incidents that the submission names, and the identifiers that the new
\* config gives to the submitted rules naming incident_id
NamedIncidents == {Unwrap(UuidParse(Input.rules[p].incident_id)) : p \in DOMAIN Input.rules}
SubmittedIdsOf(incident_id) ==
    {CurrentConfig(Store).rule_ids[p] : p \in
        {q \in DOMAIN Input.rules : UuidParse(Input.rules[q].incident_id) = Some(incident_id)}}
PreviousMembers(incident_id) ==
    IF incident_id \in DOMAIN Before.incidents
    THEN Before.incidents[incident_id].rule_ids ELSE {}
IncidentsUnited ==
    SucceededOnInitialised =>
        /\ DOMAIN incidents = DOMAIN Before.incidents \cup NamedIncidents
        /\ \A incident_id \in NamedIncidents :
             /\ incidents[incident_id].rule_ids
                  = PreviousMembers(incident_id) \cup SubmittedIdsOf(incident_id)
             /\ incidents[incident_id].is_disclosed
                  = IF incident_id \in DOMAIN Before.incidents
                    THEN Before.incidents[incident_id].is_disclosed ELSE FALSE
        /\ \A incident_id \in DOMAIN Before.incidents \ NamedIncidents :
             incidents[incident_id] = Before.incidents[incident_id]
MembershipGrows ==
    \A incident_id \in DOMAIN incidents :
        /\ incident_id \in DOMAIN incidents'
        /\ incidents[incident_id].rule_ids \subseteq incidents'[incident_id].rule_ids

\* C18: after a successful call, an incident that a submitted rule names holds
\* its previous members (none when it was not stored) and the identifiers of
\* all submitted rules naming it; it is undisclosed when new and keeps
\* is_disclosed otherwise; the other incidents are as before; and no step
\* takes a member out of an incident.
C18_IncidentMembership == []IncidentsUnited /\ [][MembershipGrows]_vars

\* a successful call named a stored incident that keeps a member no submitted
\* rule has and gets a member it did not have, and an incident not stored before
C18_Witness ==
    /\ SucceededOnInitialised
    /\ \E incident_id \in NamedIncidents :
         /\ incident_id \in DOMAIN Before.incidents
         /\ ~(PreviousMembers(incident_id) \subseteq SubmittedIdsOf(incident_id))
         /\ ~(SubmittedIdsOf(incident_id) \subseteq PreviousMembers(incident_id))
         /\ incidents[incident_id].rule_ids
              = PreviousMembers(incident_id) \cup SubmittedIdsOf(incident_id)
    /\ \E incident_id \in NamedIncidents :
         /\ incident_id \notin DOMAIN Before.incidents
         /\ ~incidents[incident_id].is_disclosed

\* the records that a version added, and configs without a repeated identifier
AddedIn(version) == {rule_id \in DOMAIN rules : rules[rule_id].added_in_version = version}
NoRepeatedIds ==
    \A version \in DOMAIN configs :
        \A i, j \in DOMAIN configs[version].rule_ids :
            configs[version].rule_ids[i] = configs[version].rule_ids[j] => i = j
ScenarioVersion2 ==
    /\ Len(configs[2].rule_ids) = 2
    /\ \A i \in 1..2 : /\ configs[2].rule_ids[i] \in DOMAIN rules
                       /\ rules[configs[2].rule_ids[i]].added_in_version = 2
ScenarioVersion3 ==
    /\ configs[3].rule_ids = <<configs[2].rule_ids[2], configs[2].rule_ids[1]>>
    /\ AddedIn(3) = {}
ScenarioVersion4 ==
    /\ Len(configs[4].rule_ids) = 3
    /\ configs[4].rule_ids[1] = configs[2].rule_ids[1]
    /\ configs[4].rule_ids[3] = configs[2].rule_ids[2]
    /\ AddedIn(4) = {configs[4].rule_ids[2]}
ScenarioVersion5 ==
    /\ \A i \in 1..2 : rules[configs[2].rule_ids[i]].removed_in_version = Some(5)
    /\ Cardinality(AddedIn(5)) = 2
ScenarioVersion6 ==
    /\ \A i \in DOMAIN configs[5].rule_ids :
         rules[configs[5].rule_ids[i]].removed_in_version = Some(6)
    /\ Len(configs[6].rule_ids) = 0
    /\ Cardinality(DOMAIN incidents) = 3
    /\ Cardinality(DOMAIN configs) = 6
ScenarioHolds ==
    /\ succeeded >= 1 => ScenarioVersion2
    /\ succeeded >= 2 => ScenarioVersion3
    /\ succeeded >= 3 => ScenarioVersion4
    /\ succeeded >= 4 => ScenarioVersion5
    /\ succeeded >= 5 => ScenarioVersion6

\* C19: in the scenario, the first successful submission creates version 2
\* with two rules added in version 2; the second creates version 3 with the
\* two identifiers swapped and no new record; the third creates version 4
\* with the two identifiers around one new record; the fourth gives the two
\* rules of version 2 removed_in_version = 5 and creates two records; the
\* fifth gives the rules of version 5 removed_in_version = 6 and leaves no
\* active rule, 3 incidents and 6 versions.
C19_Original == ScenarioHolds

\* the same, for stores whose configs list no identifier twice
C19_WithDistinctIds == NoRepeatedIds => ScenarioHolds

\* the two rules of the first submission drew the same identifier, and the
\* second submission, which resubmits them swapped, added a record
C19_Witness ==
    /\ succeeded = 2
    /\ Called /\ Result = Ok
    /\ configs[2].rule_ids[1] = configs[2].rule_ids[2]
    /\ AddedIn(3) # {}

\* the scenario ran to its end with distinct identifiers
C19_FullRun == succeeded = 5 /\ NoRepeatedIds /\ ScenarioHolds

ConsistentStore ==
    IF Initialised(Store)
    THEN /\ get_config(Store, CurrentVersion(Store)) # None
         /\ \A rule_id \in DOMAIN rules :
              /\ rules[rule_id].added_in_version <= CurrentVersion(Store)
              /\ rules[rule_id].removed_in_version # None =>
                   Unwrap(rules[rule_id].removed_in_version) <= CurrentVersion(Store)
    ELSE rules = <<>>
\* a step that starts a call leaves the store and the result that add_config
\* computes from the store of the state before; no other step writes a config
\* or adds a rule
RunsAsOneStep ==
    IF call = None /\ call' # None
    THEN /\ Unwrap(call').before = Store
         /\ [st |-> Store', result |-> Unwrap(call').result]
              = add_config(Store, Unwrap(call').input_config, Unwrap(call').time,
                           Unwrap(call').draws)
    ELSE configs' = configs /\ DOMAIN rules' = DOMAIN rules

NoPanic == Called => Result.tag # "Panic"

\* a second execution of the call, from the same store with the same
\* submission and time, with other outcomes of the random draws
AnyDraws == [DOMAIN Input.rules -> DrawOutcomes]
Rerun(d) == add_config(Before, Input, Time, d)
DrawsAgreeOnNew(d) == \A p \in NewPositions : d[p] = RandomDraws[p]
DistinctOnNew(d) == \A p, q \in NewPositions : d[p] = d[q] => p = q
\* two stores that two executions left are the same after renaming the
\* identifiers minted by the one to those minted by the other, position by
\* position of the new config
SameUpToRenaming(st1, st2) ==
    LET n == CurrentVersion(Before) + 1 IN
    /\ DOMAIN st1.configs = DOMAIN st2.configs
    /\ n \in DOMAIN st1.configs
    /\ \A version \in DOMAIN st1.configs \ {n} : st1.configs[version] = st2.configs[version]
    /\ st1.configs[n].schema_version = st2.configs[n].schema_version
    /\ st1.configs[n].active_since = st2.configs[n].active_since
    /\ Len(st1.configs[n].rule_ids) = Len(st2.configs[n].rule_ids)
    /\ \A p, q \in DOMAIN st1.configs[n].rule_ids :
         (st1.configs[n].rule_ids[p] = st1.configs[n].rule_ids[q])
           <=> (st2.configs[n].rule_ids[p] = st2.configs[n].rule_ids[q])
    /\ \A p \in DOMAIN st1.configs[n].rule_ids :
         /\ (st1.configs[n].rule_ids[p] \in DOMAIN Before.rules
               \/ st2.configs[n].rule_ids[p] \in DOMAIN Before.rules)
              => st1.configs[n].rule_ids[p] = st2.configs[n].rule_ids[p]
         /\ st1.rules[st1.configs[n].rule_ids[p]] = st2.rules[st2.configs[n].rule_ids[p]]
    /\ Cardinality(DOMAIN st1.rules) = Cardinality(DOMAIN st2.rules)
    /\ \A rule_id \in DOMAIN Before.rules : st1.rules[rule_id] = st2.rules[rule_id]
    /\ DOMAIN st1.incidents = DOMAIN st2.incidents
    /\ \A incident_id \in DOMAIN st1.incidents :
         /\ st1.incidents[incident_id].is_disclosed = st2.incidents[incident_id].is_disclosed
         /\ st1.incidents[incident_id].rule_ids \cap DOMAIN Before.rules
              = st2.incidents[incident_id].rule_ids \cap DOMAIN Before.rules
         /\ \A p \in DOMAIN st1.configs[n].rule_ids :
              (st1.configs[n].rule_ids[p] \in st1.incidents[incident_id].rule_ids)
                <=> (st2.configs[n].rule_ids[p] \in st2.incidents[incident_id].rule_ids)
\* the draws at the positions of reused rules are not consulted
ReusedDrawsIgnored ==
    (Called /\ Initialised(Before)) =>
        \A d \in AnyDraws :
            DrawsAgreeOnNew(d) => Rerun(d) = [st |-> Store, result |-> Result]

\* C21: two successful executions of add_config from the same store with the
\* same submission and time end in stores that are the same up to a renaming
\* of the identifiers they minted, and in the same store when they agree on the
\* draws of the new rules (so when every rule is reused).
C21_Original ==
    /\ ReusedDrawsIgnored
    /\ SucceededOnInitialised =>
         \A d \in AnyDraws : Rerun(d).result = Ok => SameUpToRenaming(Store, Rerun(d).st)

\* the same, for executions whose draws at the new positions are pairwise
\* distinct
C21_WithDistinctDraws ==
    /\ ReusedDrawsIgnored
    /\ (SucceededOnInitialised /\ DistinctDraws) =>
         \A d \in AnyDraws :
            (Rerun(d).result = Ok /\ DistinctOnNew(d)) => SameUpToRenaming(Store, Rerun(d).st)

\* a successful call minted two distinct identifiers, and the same call with
\* the same identifier drawn twice succeeds too, with a store that is no
\* renaming of the first
C21_Witness ==
    /\ SucceededOnInitialised
    /\ Cardinality(NewPositions) = 2
    /\ DistinctDraws
    /\ \E d \in AnyDraws :
         /\ ~DistinctOnNew(d)
         /\ Rerun(d).result = Ok
         /\ ~SameUpToRenaming(Store, Rerun(d).st)

\* the record under the identifier that the new config has at position p
RecordAt(p) == rules[CurrentConfig(Store).rule_ids[p]]
MintedAsNew ==
    SucceededOnInitialised =>
        \A p \in NewPositions :
            /\ RecordAt(p).added_in_version = CurrentVersion(Store)
            /\ RecordAt(p).removed_in_version = None
            /\ RecordAt(p).disclosed_at = None
ReusedNotRewritten ==
    SucceededOnInitialised =>
        \A p \in DOMAIN Input.rules \ NewPositions :
            /\ CurrentConfig(Store).rule_ids[p] \in DOMAIN Before.rules
            /\ RecordAt(p) = Before.rules[CurrentConfig(Store).rule_ids[p]]
            /\ RecordAt(p).added_in_version < CurrentVersion(Store)
            /\ RecordAt(p).removed_in_version = None

\* C24: after a successful call that creates version n, the record under the
\* identifier of every new rule has added_in_version = n and neither
\* removed_in_version nor disclosed_at; the record of every resubmitted rule is
\* the one the store held before the call, with the added_in_version of an
\* earlier version and no removed_in_version.
C24_AddedOnceKeptWhileSubmitted == MintedAsNew /\ ReusedNotRewritten

\* the third successful call resubmitted a rule that version 2 added and
\* version 3 kept, next to a new rule
C24_Witness ==
    /\ SucceededOnInitialised
    /\ CurrentVersion(Store) = 4
    /\ NewPositions # {}
    /\ \E p \in DOMAIN Input.rules \ NewPositions :
         /\ RecordAt(p).added_in_version = 2
         /\ RecordAt(p).removed_in_version = None
         /\ CurrentConfig(Store).rule_ids[p] \in
              {configs[3].rule_ids[j] : j \in DOMAIN configs[3].rule_ids}

\* the identifiers of the previous version that the new version does not list
RemovedByCall ==
    {ActiveIds(Before)[j] : j \in DOMAIN ActiveIds(Before)}
        \ {CurrentConfig(Store).rule_ids[j] : j \in DOMAIN CurrentConfig(Store).rule_ids}

\* C25: after a successful call that creates version n, the record of every
\* identifier of the previous version that is not in the new version is the
\* record the store held with removed_in_version = n, and every other record
\* the store held is as it was.
C25_RemovedExactlyTheDifference ==
    SucceededOnInitialised =>
        \A rule_id \in DOMAIN Before.rules :
            /\ rule_id \in DOMAIN rules
            /\ rules[rule_id] =
                 IF rule_id \in RemovedByCall
                 THEN [Before.rules[rule_id] EXCEPT
                         !.removed_in_version = Some(CurrentVersion(Store))]
                 ELSE Before.rules[rule_id]

\* a successful call removed a disclosed rule, kept another and left a rule
\* removed earlier as it was
C25_Witness ==
    /\ SucceededOnInitialised
    /\ \E rule_id \in RemovedByCall :
         /\ rules[rule_id].disclosed_at # None
         /\ Before.rules[rule_id].removed_in_version = None
         /\ rules[rule_id].removed_in_version = Some(CurrentVersion(Store))
    /\ \E rule_id \in DOMAIN Before.rules \ RemovedByCall :
         Before.rules[rule_id].removed_in_version # None
    /\ \E rule_id \in DOMAIN Before.rules \ RemovedByCall :
         rules[rule_id].removed_in_version = None

AtLargestVersion == Called /\ Initialised(Before) /\ CurrentVersion(Before) = U64_MAX
OverflowError == Internal("Overflow occurred while incrementing the current version")

\* C26: a call with a valid submission on a store whose current version is
\* the largest Version fails with the Internal error of the overflow and
\* leaves the store as it was, whatever the draws would yield and whatever
\* rules the submission holds.
C26_OverflowRejected ==
    (AtLargestVersion /\ IsValid(Input)) => (Result = OverflowError /\ Store = Before)

\* at the largest version, a call submitted a new rule whose draw would have
\* failed or whose incident is disclosed
C26_Witness ==
    /\ AtLargestVersion
    /\ IsValid(Input)
    /\ Result = OverflowError
    /\ \E p \in NewPositions :
         \/ RandomDraws[p] = None
         \/ /\ IncidentOf(Input.rules[p]) \in DOMAIN Before.incidents
            /\ Before.incidents[IncidentOf(Input.rules[p])].is_disclosed

\* the draw of the new rule at position p yields a stored identifier, and
\* every new rule before it drew an identifier that is not stored and passed
\* the disclosure policy
CollidesAt(p) ==
    /\ p \in NewPositions
    /\ RandomDraws[p] # None
    /\ Unwrap(RandomDraws[p]) \in DOMAIN Before.rules
    /\ \A q \in NewPositions :
         q < p => /\ FreshDraw(Before, RandomDraws, q)
                  /\ ~LinksToDisclosed(Before, Input.rules[q])
CollisionError == Internal("Failed to generate a new uuid")
CollisionRejected ==
    (Called /\ Initialised(Before) /\ IsValid(Input)) =>
        \A p \in DOMAIN Input.rules :
            CollidesAt(p) => (Result = CollisionError /\ Store = Before)
EndsInOneOfThree ==
    Called =>
        /\ Result.tag \in {"Ok", "InvalidInputConfig", "LinkingRuleToDisclosedIncident",
                           "Internal", "Panic"}
        /\ Result # Ok => Store = Before

\* C27: a call in which the identifier drawn for a new rule is a stored one
\* fails with the Internal error of the collision and leaves the store as it
\* was, also when rules before it were accepted; every call ends in success,
\* in an error without any change of the store, or in a panic.
C27_CollisionIsFinal == CollisionRejected /\ EndsInOneOfThree

\* the first rule of a submission was accepted as new, the second drew a
\* stored identifier, and the store holds neither
C27_Witness ==
    /\ Called /\ Initialised(Before) /\ IsValid(Input)
    /\ Len(Input.rules) = 2
    /\ NewPositions = {1, 2}
    /\ FreshDraw(Before, RandomDraws, 1)
    /\ CollidesAt(2)
    /\ Result = CollisionError
    /\ Store = Before

\* every identifier of the current config has a record, and the full config
\* of the current version lists the rules of these records in the order of
\* rule_ids
CurrentConfigResolves ==
    Initialised(Store) =>
        /\ \A j \in DOMAIN ActiveIds(Store) : get_rule(Store, ActiveIds(Store)[j]) # None
        /\ get_full_config(Store, CurrentVersion(Store)) # None
        /\ LET full == Unwrap(get_full_config(Store, CurrentVersion(Store))) IN
           /\ Len(full.rules) = Len(ActiveIds(Store))
           /\ \A j \in DOMAIN ActiveIds(Store) :
                /\ full.rules[j].incident_id = rules[ActiveIds(Store)[j]].incident_id
                /\ full.rules[j].rule_raw = rules[ActiveIds(Store)[j]].rule_raw
                /\ full.rules[j].description = rules[ActiveIds(Store)[j]].description
FailsBeforeWriting ==
    Called => (Result.tag # "Panic" /\ (Result # Ok => Store = Before))

\* C28: in every state, every identifier of the current config (so every one
\* that a call can schedule for removal) has a record and the full config of
\* the current version has the length and the order of rule_ids; no call
\* panics, and a call that fails has written nothing.
C28_CommitNeverFails == CurrentConfigResolves /\ FailsBeforeWriting

\* a successful call on a store with a disclosed incident removed a rule and
\* reused another at a position other than the one it had
C28_Witness ==
    /\ SucceededOnInitialised
    /\ RemovedByCall # {}
    /\ \E incident_id \in DOMAIN Before.incidents : Before.incidents[incident_id].is_disclosed
    /\ \E p \in DOMAIN Input.rules, j \in DOMAIN ActiveIds(Before) :
         /\ p # j
         /\ j \in ActiveMatches(Before, Input.rules[p])
         /\ CurrentConfig(Store).rule_ids[p] = ActiveIds(Before)[j]
    /\ CurrentConfigResolves

IdsOf(version) == {configs[version].rule_ids[j] : j \in DOMAIN configs[version].rule_ids}
ActiveIn(rule_id, version) ==
    /\ rules[rule_id].added_in_version <= version
    /\ \/ rules[rule_id].removed_in_version = None
       \/ version < Unwrap(rules[rule_id].removed_in_version)

\* C29: in every state, a stored rule is in the rule_ids of a committed
\* version exactly when the version is at least its added_in_version and, if
\* its removed_in_version is set, below it; the rules of the current version
\* are the stored rules without removed_in_version; every identifier of a
\* config has a record.
C29_HistoryMatchesConfigs ==
    /\ \A version \in DOMAIN configs :
         /\ IdsOf(version) \subseteq DOMAIN rules
         /\ \A rule_id \in DOMAIN rules :
              (rule_id \in IdsOf(version)) <=> ActiveIn(rule_id, version)
    /\ Initialised(Store) =>
         IdsOf(CurrentVersion(Store))
           = {rule_id \in DOMAIN rules : rules[rule_id].removed_in_version = None}
    /\ ~Initialised(Store) => rules = <<>>

\* at version 4 the store holds a rule of versions 2 and 3 only, a rule added
\* in version 4 and a rule active since version 2
C29_Witness ==
    /\ Initialised(Store)
    /\ CurrentVersion(Store) = 4
    /\ \E rule_id \in DOMAIN rules :
         /\ rules[rule_id].added_in_version = 2
         /\ rules[rule_id].removed_in_version = Some(4)
         /\ rule_id \in IdsOf(2) \cap IdsOf(3)
         /\ rule_id \notin IdsOf(4)
    /\ \E rule_id \in IdsOf(4) : rules[rule_id].added_in_version = 4
    /\ \E rule_id \in IdsOf(4) : rules[rule_id].added_in_version = 2

\* two stored rules have the same content: incident, parsed rule_raw, description
SameStoredContent(r1, r2) ==
    /\ r1.incident_id = r2.incident_id
    /\ JsonParse(r1.rule_raw) = JsonParse(r2.rule_raw)
    /\ r1.description = r2.description
\* no config of the store lists an identifier twice or lists two rules of the
\* same content
UnambiguousConfigs(st) ==
    \A version \in DOMAIN st.configs :
        \A i, j \in DOMAIN st.configs[version].rule_ids :
            i # j =>
              /\ st.configs[version].rule_ids[i] # st.configs[version].rule_ids[j]
              /\ ~SameStoredContent(st.rules[st.configs[version].rule_ids[i]],
                                    st.rules[st.configs[version].rule_ids[j]])

\* C30: in every state, no committed config lists a RuleId twice and no two
\* rules of a committed config have the same content.
C30_Original == UnambiguousConfigs(Store)

\* the same, as a step: a successful call whose draws at the new positions are
\* pairwise distinct, on a store with unambiguous configs, leaves one
C30_WithDistinctDraws ==
    (SucceededOnInitialised /\ DistinctDraws /\ UnambiguousConfigs(Before))
        => UnambiguousConfigs(Store)

\* a successful call committed a config that lists one identifier at both of
\* its positions
C30_Witness ==
    /\ SucceededOnInitialised
    /\ UnambiguousConfigs(Before)
    /\ Len(CurrentConfig(Store).rule_ids) = 2
    /\ CurrentConfig(Store).rule_ids[1] = CurrentConfig(Store).rule_ids[2]
    /\ ~ContentEqual(Input.rules[1], Input.rules[2])

\* every stored rule is a member of the incident it names, which is stored
RulesHaveIncidents(st) ==
    \A rule_id \in DOMAIN st.rules :
        /\ st.rules[rule_id].incident_id \in DOMAIN st.incidents
        /\ rule_id \in st.incidents[st.rules[rule_id].incident_id].rule_ids
\* every member of an incident is a stored rule that names the incident
MembersAreRules(st) ==
    \A incident_id \in DOMAIN st.incidents :
        \A rule_id \in st.incidents[incident_id].rule_ids :
            /\ rule_id \in DOMAIN st.rules
            /\ st.rules[rule_id].incident_id = incident_id
LinkedBothWays(st) == RulesHaveIncidents(st) /\ MembersAreRules(st)

\* C31: in every state, every stored rule, active or removed, is a member of
\* the incident named by its incident_id, that incident is stored, and every
\* member of an incident's rule set is a stored rule whose incident_id is
\* that incident.
C31_Original == LinkedBothWays(Store)

\* every stored rule is a member of its incident in every state; and, as a
\* step, a successful call whose draws at the new positions are pairwise
\* distinct, on a store where rules and incidents are linked both ways,
\* leaves one
C31_WithDistinctDraws ==
    /\ RulesHaveIncidents(Store)
    /\ (SucceededOnInitialised /\ DistinctDraws /\ LinkedBothWays(Before))
         => LinkedBothWays(Store)

\* a successful call with two new rules of two incidents that drew the same
\* identifier: both incidents have it as a member, its record names one
C31_Witness ==
    /\ SucceededOnInitialised
    /\ LinkedBothWays(Before)
    /\ ~DistinctDraws
    /\ \E rule_id \in DOMAIN rules \ DOMAIN Before.rules :
         \E incident_id \in DOMAIN incidents :
            /\ rule_id \in incidents[incident_id].rule_ids
            /\ rules[rule_id].incident_id # incident_id
            /\ rule_id \in incidents[rules[rule_id].incident_id].rule_ids

\* the stored rules whose record names the incident
RecordsOf(stored_rules, incident_id) ==
    {rule_id \in DOMAIN stored_rules : stored_rules[rule_id].incident_id = incident_id}
\* a step leaves every disclosed incident disclosed and with the members it
\* has, and the records naming it are those that named it, added when they were
DisclosedFrozen ==
    \A incident_id \in DOMAIN incidents :
        incidents[incident_id].is_disclosed =>
            /\ incident_id \in DOMAIN incidents'
            /\ incidents'[incident_id].is_disclosed
            /\ incidents'[incident_id].rule_ids = incidents[incident_id].rule_ids
            /\ RecordsOf(rules', incident_id) = RecordsOf(rules, incident_id)
            /\ \A rule_id \in RecordsOf(rules, incident_id) :
                 rules'[rule_id].added_in_version = rules[rule_id].added_in_version
\* entry p of a valid submission has the content of a rule removed earlier,
\* and of no active rule, whose incident is disclosed
ResubmitsRemovedOfDisclosed(p) ==
    /\ Called
    /\ IsValid(Input)
    /\ Initialised(Before)
    /\ ResubmitsRemoved(p)
    /\ LinksToDisclosed(Before, Input.rules[p])
\* the new rules of the submission up to the first one that links to a
\* disclosed incident all drew an identifier that is not stored
DrawsFreshUpToFirstLinking ==
    \A k \in 1..FirstLinkingToDisclosed(Before, Input) :
        NoActiveMatch(Before, Input.rules[k]) => FreshDraw(Before, RandomDraws, k)

\* C32 as stated: no step adds a member to a disclosed incident or creates a
\* rule record naming it, and a submission with the content of one of its
\* removed rules is rejected with LinkingRuleToDisclosedIncident.
C32_Original ==
    /\ [][DisclosedFrozen]_vars
    /\ [](\A p \in 1..MaxRules : ResubmitsRemovedOfDisclosed(p) =>
            /\ Result.tag = "LinkingRuleToDisclosedIncident"
            /\ Store = Before)

\* C32 amended: no step adds a member to a disclosed incident or creates a
\* rule record naming it, and a submission with the content of one of its
\* removed rules is rejected and changes nothing: with
\* LinkingRuleToDisclosedIncident when every new rule up to the first one of
\* a disclosed incident drew an identifier that is not stored, with Internal
\* otherwise.
C32_DisclosedIncidentFrozen ==
    /\ [][DisclosedFrozen]_vars
    /\ [](\A p \in 1..MaxRules : ResubmitsRemovedOfDisclosed(p) =>
            /\ Store = Before
            /\ IF DrawsFreshUpToFirstLinking
               THEN Result.tag = "LinkingRuleToDisclosedIncident"
               ELSE Result.tag = "Internal")

\* the third call submitted a new rule of an incident that is not disclosed,
\* which drew an unused identifier, and then the content of a rule added in
\* version 2 and removed in version 3 whose incident was disclosed since: it
\* was rejected at index 1 and the incident has the members it had
C32_Witness ==
    /\ ResubmitsRemovedOfDisclosed(2)
    /\ CurrentVersion(Before) = 3
    /\ NoActiveMatch(Before, Input.rules[1])
    /\ ~LinksToDisclosed(Before, Input.rules[1])
    /\ FreshDraw(Before, RandomDraws, 1)
    /\ Result = LinkingRuleToDisclosedIncident(1, IncidentOf(Input.rules[2]))
    /\ \E old \in RemovedMatches(2) :
         /\ rules[old].added_in_version = 2
         /\ rules[old].removed_in_version = Some(3)
         /\ rules[old].disclosed_at # None
         /\ incidents[rules[old].incident_id].rule_ids = {old}

(***************************************************************************)
(* Properties of get_node_keys_or_generate_if_missing.                     *)
(***************************************************************************)
NoPublicKeys(root) ==
    \/ root.public_keys = None
    \/ node_public_keys_are_empty(Unwrap(root.public_keys))
PresentKeys(node_pks) ==
    {Unwrap(maybe_pk) : maybe_pk \in
        {node_pks.node_signing_pk, node_pks.committee_signing_pk,
         node_pks.dkg_dealing_encryption_pk, node_pks.idkg_dealing_encryption_pk,
         node_pks.tls_certificate} \ {None}}
RequiredFound(node_pks) ==
    /\ node_pks.node_signing_pk # None
    /\ node_pks.committee_signing_pk # None
    /\ node_pks.dkg_dealing_encryption_pk # None
    /\ node_pks.tls_certificate # None
AllFound(node_pks) == RequiredFound(node_pks) /\ node_pks.idkg_dealing_encryption_pk # None
ConsistentWithSecretKeys(root, node_pks) ==
    \A pk \in PresentKeys(node_pks) : SecretKeyOf(pk) \in root.secret_keys
\* the call generated a key set: it found no public keys and returned
GeneratedAll(c) == NoPublicKeys(c.before) /\ c.result.tag = "Ok"
ReturnsGeneratedKeys(c) ==
    /\ c.result.node_pks.version = 1
    /\ AllFound(c.result.node_pks)
    /\ c.result.node_id = derive_node_id(Unwrap(c.result.node_pks.node_signing_pk))
    /\ Unwrap(c.result.node_pks.dkg_dealing_encryption_pk).node_id = c.result.node_id
    /\ Unwrap(c.result.node_pks.tls_certificate).node_id = c.result.node_id
    /\ c.after.public_keys = Some(c.result.node_pks)
    /\ ConsistentWithSecretKeys(c.after, c.result.node_pks)

\* C22: a call that finds no public keys and returns has generated the five
\* keys, stored their public parts with version 1 and returned them with the
\* node ID derived from the node signing public key; the next call on the same
\* crypto root returns the same public keys and node ID and leaves the key
\* stores as they are.
C22_SecondCallReturnsTheSame ==
    \A i \in DOMAIN keys_calls :
        GeneratedAll(keys_calls[i]) =>
            /\ ReturnsGeneratedKeys(keys_calls[i])
            /\ (i + 1) \in DOMAIN keys_calls =>
                 /\ keys_calls[i + 1].result = keys_calls[i].result
                 /\ keys_calls[i + 1].after = keys_calls[i].after

\* two calls on a crypto root without key stores: the second returned the
\* keys that the first generated
C22_Witness ==
    /\ Len(keys_calls) = 2
    /\ keys_calls[1].before = EmptyCryptoRoot
    /\ GeneratedAll(keys_calls[1])
    /\ keys_calls[2].result = keys_calls[1].result
    /\ crypto_root = keys_calls[1].after
    /\ Cardinality(crypto_root.secret_keys) = 5

\* what a call may write: every key when it found no public keys, the I-DKG
\* dealing encryption key and the version when it found consistent public keys
\* without that key, and nothing otherwise
GeneratesOnlyWhenMissing ==
    \A i \in DOMAIN keys_calls :
        LET c == keys_calls[i] IN
        \/ NoPublicKeys(c.before)
        \/ /\ check_keys_locally(c.before).ok
           /\ Unwrap(c.before.public_keys).idkg_dealing_encryption_pk = None
           /\ c.after.secret_keys \ c.before.secret_keys
                \subseteq {<<"MegaSecp256k1", k>> : k \in KeyMaterial}
           /\ \/ c.after.public_keys = c.before.public_keys
              \/ \E k \in KeyMaterial :
                   c.after.public_keys =
                     Some([Unwrap(c.before.public_keys) EXCEPT
                             !.idkg_dealing_encryption_pk = Some(IDkgDealingEncryptionPk(k)),
                             !.version = 1])
        \/ c.after = c.before
InconsistentPanics ==
    \A i \in DOMAIN keys_calls :
        ~check_keys_locally(keys_calls[i].before).ok =>
            /\ keys_calls[i].result.tag = "Panic"
            /\ keys_calls[i].after = keys_calls[i].before
\* the three results of check_keys_locally, with the public keys that must be
\* found for Ok(Some) given by found(_)
CheckResultIs(root, found(_)) ==
    LET checked == check_keys_locally(root) IN
    IF NoPublicKeys(root) THEN checked = CryptoOk(None)
    ELSE IF /\ found(Unwrap(root.public_keys))
            /\ ConsistentWithSecretKeys(root, Unwrap(root.public_keys))
    THEN checked = CryptoOk(root.public_keys)
    ELSE ~checked.ok

====
